---- MODULE Spec2Model ----
(***************************************************************************)
(* Shop classification and deduplication pipeline of skateshopfinder:      *)
(* scripts/processors/{deduplicator,classifier,normalizer,geocoder}.js,    *)
(* scripts/collect-shops.js and scripts/review-shops.js.                   *)
(*                                                                         *)
(* JavaScript values are tagged records, so that null, undefined, numbers, *)
(* strings, booleans and arrays keep the distinctions the code relies on   *)
(* (truthiness in `a || b`, `=== null`, `!== undefined`).  Strings are     *)
(* TLA+ strings handled character by character.  Coordinates are integers  *)
(* in units of 1e-7 degree.                                                *)
(***************************************************************************)
EXTENDS Integers, Sequences, FiniteSets, TLC

VARIABLES
  entries,        \* deduplicateShops: the pre-computed entries of the input
  unique,         \* deduplicateShops: the clusters found so far
  dPos,           \* deduplicateShops: number of entries the loop has handled
  fShops,         \* applyConfidenceFilter: the shops argument
  fRemoved,       \* applyConfidenceFilter: decisions.removedIds
  fApproved,      \* applyConfidenceFilter: decisions.approvedIds
  included,       \* applyConfidenceFilter: the included list
  pendingReview,  \* applyConfidenceFilter: the pendingReview list
  scored,         \* history: the shops calculateConfidence was called with
  fPos,           \* applyConfidenceFilter: number of shops the loop has handled
  removedFile,    \* data/removed-shops.json: a list of place IDs
  approvedFile,   \* data/approved-shops.json: a list of place IDs
  pendingFile,    \* data/pending-review.json: a list of shops
  shopsFile,      \* shops.json: << >> while absent, else << data >>
  run,            \* history: what the last collect run read, routed and wrote
  session,        \* review-shops.js main: the locals of a running session
  decided,        \* history: the shops approved and denied in saved sessions,
                  \* and how the loop of the last of them ended
  cShop,          \* the record calculateConfidence and classifyShop are called with
  cConfidence,    \* << >>, or << what calculateConfidence(cShop) returned >>
  cClassified,    \* << >>, or << what classifyShop(cShop) returned >>
  nShop,          \* the record normalizeShop is called with
  nShops,         \* << >>, or << the outcome of normalizeShops([nShop]) >>
  nWebsite,       \* << >>, or << the outcome of normalizeWebsite(nShop.website) >>
  nAgain          \* << >>, or << the outcome of normalizeWebsite on that result >>

dedupVars == << entries, unique, dPos >>
filterVars == << fShops, fRemoved, fApproved, included, pendingReview, scored, fPos >>
pipeVars == << removedFile, approvedFile, pendingFile, shopsFile, run, session, decided >>
classVars == << cShop, cConfidence, cClassified >>
normVars == << nShop, nShops, nWebsite, nAgain >>
vars == << entries, unique, dPos, fShops, fRemoved, fApproved, included, pendingReview,
           scored, fPos, removedFile, approvedFile, pendingFile, shopsFile, run,
           session, decided, cShop, cConfidence, cClassified, nShop, nShops, nWebsite,
           nAgain >>

\* ------------------------------------------------------------------------
\* JavaScript values
\* ------------------------------------------------------------------------
Null == [t |-> "null", v |-> 0]
Undef == [t |-> "undefined", v |-> 0]
Num(n) == [t |-> "num", v |-> n]
Str(s) == [t |-> "str", v |-> s]
Bool(b) == [t |-> "bool", v |-> b]
List(q) == [t |-> "list", v |-> q]
NaN == [t |-> "nan", v |-> 0]
\* a string that spells the number n, such as "47.6"
NumStr(n) == [t |-> "numstr", v |-> n]

IsStr(x) == x.t = "str"
IsNum(x) == x.t = "num"

\* JavaScript truthiness: null, undefined, 0, NaN, '' and false are falsy; every
\* array (also the empty one) is truthy.
Truthy(x) ==
  CASE x.t = "null" -> FALSE
    [] x.t = "undefined" -> FALSE
    [] x.t = "num" -> x.v # 0
    [] x.t = "str" -> x.v # ""
    [] x.t = "bool" -> x.v
    [] x.t = "nan" -> FALSE
    [] OTHER -> TRUE

\* a || b
Or(a, b) == IF Truthy(a) THEN a ELSE b

\* a field the object does not have reads as undefined
Field(shop, f) == IF f \in DOMAIN shop THEN shop[f] ELSE Undef

\* ------------------------------------------------------------------------
\* Characters and the regular-expression steps the code uses
\* ------------------------------------------------------------------------
UpperChars == "ABCDEFGHIJKLMNOPQRSTUVWXYZ"
LowerChars == "abcdefghijklmnopqrstuvwxyz"
DigitChars == "0123456789"

Ch(s, i) == SubSeq(s, i, i)
From(s, i) == SubSeq(s, i, Len(s))

CharsOf(s) == {Ch(s, i) : i \in 1..Len(s)}
UpperSet == CharsOf(UpperChars)
LowerSet == CharsOf(LowerChars)
DigitSet == CharsOf(DigitChars)

\* \w, \s, \d and [A-Za-z]
WordSet == UpperSet \cup LowerSet \cup DigitSet \cup {"_"}
SpaceSet == {" ", "\t", "\n", "\r"}
LetterSet == UpperSet \cup LowerSet
IsWordChar(c) == c \in WordSet
IsSpace(c) == c \in SpaceSet
IsDigit(c) == c \in DigitSet
IsLetter(c) == c \in LetterSet

LowerOf == [c \in UpperSet |-> Ch(LowerChars, CHOOSE i \in 1..Len(UpperChars) : Ch(UpperChars, i) = c)]
LowerChar(c) == IF c \in UpperSet THEN LowerOf[c] ELSE c

RECURSIVE LowerFrom(_, _)
LowerFrom(s, i) == IF i > Len(s) THEN "" ELSE LowerChar(Ch(s, i)) \o LowerFrom(s, i + 1)
\* String.prototype.toLowerCase
toLowerCase(s) == LowerFrom(s, 1)

\* \b between positions i-1 and i of s (i in 1..Len(s)+1)
WordBoundaryAt(s, i) ==
  LET before == i > 1 /\ IsWordChar(Ch(s, i - 1))
      after == i <= Len(s) /\ IsWordChar(Ch(s, i))
  IN before # after

\* the literal lit occurs in s at position i
LitAt(s, i, lit) == i + Len(lit) - 1 <= Len(s) /\ SubSeq(s, i, i + Len(lit) - 1) = lit

RECURSIVE SkipSpaces(_, _)
\* first position at or after i that holds no whitespace (greedy \s*)
SkipSpaces(s, i) == IF i <= Len(s) /\ IsSpace(Ch(s, i)) THEN SkipSpaces(s, i + 1) ELSE i

RECURSIVE CollapseFrom(_, _)
CollapseFrom(s, i) ==
  IF i > Len(s) THEN ""
  ELSE IF IsSpace(Ch(s, i))
       THEN " " \o CollapseFrom(s, SkipSpaces(s, i))
       ELSE Ch(s, i) \o CollapseFrom(s, i + 1)
\* .replace(/\s+/g, ' ')
CollapseWhitespace(s) == CollapseFrom(s, 1)

RECURSIVE LastNonSpace(_, _)
LastNonSpace(s, i) == IF i >= 1 /\ IsSpace(Ch(s, i)) THEN LastNonSpace(s, i - 1) ELSE i
\* String.prototype.trim
trim(s) == SubSeq(s, SkipSpaces(s, 1), LastNonSpace(s, Len(s)))

RECURSIVE IndexOfFrom(_, _, _)
\* String.prototype.indexOf(lit, i), 1-based; 0 when lit does not occur
IndexOfFrom(s, lit, i) ==
  IF i + Len(lit) - 1 > Len(s) THEN 0
  ELSE IF LitAt(s, i, lit) THEN i ELSE IndexOfFrom(s, lit, i + 1)
\* String.prototype.includes
includes(s, lit) == IndexOfFrom(s, lit, 1) > 0

\* the least index in hits, 0 when hits is empty
FirstIndex(hits) == IF hits = {} THEN 0 ELSE CHOOSE k \in hits : \A j \in hits : k <= j

\* the first positive element of q, 0 when there is none
FirstPositive(q) ==
  IF \A k \in 1..Len(q) : q[k] = 0 THEN 0
  ELSE q[CHOOSE k \in 1..Len(q) : q[k] > 0 /\ \A j \in 1..(k - 1) : q[j] = 0]

\* m unless it is the empty sequence, else other
IfEmpty(m, other) == IF m # <<>> THEN m ELSE other

\* ------------------------------------------------------------------------
\* Deduplicator (scripts/processors/deduplicator.js)
\* ------------------------------------------------------------------------
\* 0.0001 degree, in units of 1e-7 degree
COORDINATE_THRESHOLD == 1000

Abs(n) == IF n < 0 THEN -n ELSE n
\* d*d, saturated at the squared threshold so that the 32-bit product cannot
\* overflow; a difference that large already exceeds the threshold by itself
SquareCapped(d) ==
  IF Abs(d) >= COORDINATE_THRESHOLD THEN COORDINATE_THRESHOLD * COORDINATE_THRESHOLD ELSE d * d
\* the square of coordinateDistance (Math.sqrt is monotone, so
\* distance < threshold iff distance^2 < threshold^2)
coordinateDistanceSq(lat1, lng1, lat2, lng2) ==
  SquareCapped(lat1 - lat2) + SquareCapped(lng1 - lng2)

\* the characters of the class /['\x60]/ that a string of the model can hold
\* (the backquote, \x60, cannot be written in a string here and stays outside
\* the alphabet of the model)
QuoteChars == {"'"}
RECURSIVE QuotesFrom(_, _)
\* .replace(/['\x60]/g, "'")
QuotesFrom(s, i) ==
  IF i > Len(s) THEN ""
  ELSE (IF Ch(s, i) \in QuoteChars THEN "'" ELSE Ch(s, i)) \o QuotesFrom(s, i + 1)

RECURSIVE PunctFrom(_, _)
\* .replace(/[^\w\s']/g, ' ')
PunctFrom(s, i) ==
  IF i > Len(s) THEN ""
  ELSE (IF IsWordChar(Ch(s, i)) \/ IsSpace(Ch(s, i)) \/ Ch(s, i) = "'" THEN Ch(s, i) ELSE " ")
       \o PunctFrom(s, i + 1)

\* a \s* b at position i followed by \b: the position after the match, else 0
SpacedPairAt(s, i, a, b) ==
  IF ~LitAt(s, i, a) THEN 0
  ELSE LET k == SkipSpaces(s, i + Len(a))
       IN IF LitAt(s, k, b) /\ WordBoundaryAt(s, k + Len(b)) THEN k + Len(b) ELSE 0
\* the literal a at position i followed by \b: the position after it, else 0
WordAt(s, i, a) ==
  IF LitAt(s, i, a) /\ WordBoundaryAt(s, i + Len(a)) THEN i + Len(a) ELSE 0

\* /\b(skate\s*shop|skateshop|skate\s*store|shop|store|inc|llc|ltd|co)\b/ at
\* position i: the position after the first alternative that matches, else 0
SuffixMatchAt(s, i) ==
  IF ~WordBoundaryAt(s, i) THEN 0
  ELSE FirstPositive(<< SpacedPairAt(s, i, "skate", "shop"), WordAt(s, i, "skateshop"),
                        SpacedPairAt(s, i, "skate", "store"), WordAt(s, i, "shop"),
                        WordAt(s, i, "store"), WordAt(s, i, "inc"), WordAt(s, i, "llc"),
                        WordAt(s, i, "ltd"), WordAt(s, i, "co") >>)

RECURSIVE SuffixesFrom(_, _)
\* the rest of the replacement from position i, e being the end of a match at i
SuffixesStep(s, i, e) ==
  IF e > 0 THEN SuffixesFrom(s, e) ELSE Ch(s, i) \o SuffixesFrom(s, i + 1)
\* .replace(/\b(skate\s*shop|...|co)\b/g, '') from position i
SuffixesFrom(s, i) == IF i > Len(s) THEN "" ELSE SuffixesStep(s, i, SuffixMatchAt(s, i))

\* normalizeForComparison of a string
normalizeStr(s) ==
  trim(SuffixesFrom(CollapseWhitespace(PunctFrom(QuotesFrom(toLowerCase(s), 1), 1)), 1))
\* normalizeForComparison(str): '' for a falsy argument
normalizeForComparison(x) == IF ~Truthy(x) THEN "" ELSE normalizeStr(x.v)

\* /,\s*([^,]+),\s*[A-Z]{2}\b/i tried with its first comma at position p: the
\* captured group as <<text>>, or <<>> when there is no match from p
CityMatchAt(s, p) ==
  LET q == IndexOfFrom(s, ",", p + 1)
  IN IF Ch(s, p) # "," \/ q = 0 \/ q = p + 1 THEN <<>>
     ELSE LET g == SkipSpaces(s, p + 1)
              \* \s* gives back one character when it swallowed the whole segment
              from == IF g >= q THEN q - 1 ELSE g
              k == SkipSpaces(s, q + 1)
          IN IF k + 1 <= Len(s) /\ IsLetter(Ch(s, k)) /\ IsLetter(Ch(s, k + 1))
                /\ WordBoundaryAt(s, k + 2)
             THEN << SubSeq(s, from, q - 1) >> ELSE <<>>

RECURSIVE CityFrom(_, _)
CityFrom(s, p) ==
  IF p > Len(s) THEN <<>>
  ELSE IfEmpty(CityMatchAt(s, p), CityFrom(s, p + 1))

\* extractCity(address): Str(city) or Null
CityToken(m) == IF m # <<>> THEN Str(normalizeStr(m[1])) ELSE Null
extractCity(address) == IF ~Truthy(address) THEN Null ELSE CityToken(CityFrom(address.v, 1))

\* the part of s before position c, all of s when c is 0
Before(s, c) == IF c = 0 THEN s ELSE SubSeq(s, 1, c - 1)
\* s.split('.')[0]
BeforeFirstDot(s) == Before(s, IndexOfFrom(s, ".", 1))
\* normalizedAddress.split(',')[0]
BeforeFirstComma(s) == Before(s, IndexOfFrom(s, ",", 1))

\* the entry precomputeNormalized returns, given the normalized address
NormalizedEntry(shop, normalizedAddress) ==
  [ shop |-> shop,
    name |-> normalizeForComparison(shop.name),
    address |-> normalizedAddress,
    street |-> trim(BeforeFirstComma(normalizedAddress)),
    city |-> extractCity(shop.address) ]

precomputeNormalized(shop) == NormalizedEntry(shop, normalizeForComparison(shop.address))

\* matchByCoordinates on the two shops of the entries
CloseCoordinates(shop1, shop2) ==
  IF ~Truthy(shop1.lat) \/ ~Truthy(shop1.lng) \/ ~Truthy(shop2.lat) \/ ~Truthy(shop2.lng)
  THEN FALSE
  ELSE coordinateDistanceSq(shop1.lat.v, shop1.lng.v, shop2.lat.v, shop2.lng.v)
         < COORDINATE_THRESHOLD * COORDINATE_THRESHOLD

matchByCoordinates(entry1, entry2) == CloseCoordinates(entry1.shop, entry2.shop)

\* mutant: the city tokens are not compared
matchByNameOnly(entry1, entry2) ==
  ~(entry1.name = "" \/ entry2.name = "" \/ entry1.name # entry2.name)

matchByNameAndCity(entry1, entry2) ==
  IF entry1.name = "" \/ entry2.name = "" \/ entry1.name # entry2.name THEN FALSE
  ELSE IF Truthy(entry1.city) /\ Truthy(entry2.city) THEN entry1.city = entry2.city
  ELSE TRUE

matchByAddress(entry1, entry2) ==
  IF entry1.address = "" \/ entry2.address = "" THEN FALSE
  ELSE IF entry1.address = entry2.address THEN TRUE
  ELSE entry1.street # "" /\ entry2.street # "" /\ entry1.street = entry2.street
       /\ Truthy(entry1.city) /\ Truthy(entry2.city) /\ entry1.city = entry2.city

areDuplicates(entry1, entry2) ==
  \/ matchByCoordinates(entry1, entry2)
  \/ matchByNameAndCity(entry1, entry2)
  \/ matchByAddress(entry1, entry2)

\* sourcePriority[source] || 0
sourcePriority(source) ==
  IF source = Str("chain") THEN 3
  ELSE IF source = Str("manual") THEN 2
  ELSE IF source = Str("osm") THEN 1
  ELSE 0

RECURSIVE Unique(_)
\* .filter((v, i, a) => a.indexOf(v) === i)
Unique(q) ==
  IF q = <<>> THEN <<>>
  ELSE IF \E i \in 1..Len(q) - 1 : q[i] = q[Len(q)]
       THEN Unique(SubSeq(q, 1, Len(q) - 1))
       ELSE Append(Unique(SubSeq(q, 1, Len(q) - 1)), q[Len(q)])

\* shop.mergedFrom || [shop.source]
MergedFromOrSource(shop) == IF Truthy(shop.mergedFrom) THEN shop.mergedFrom.v ELSE << shop.source >>

\* the record the object literal of mergeShops builds from base and other
MergedRecord(base, other) ==
  [ id |-> base.id,
    name |-> Or(base.name, other.name),
    address |-> Or(base.address, other.address),
    lat |-> Or(base.lat, other.lat),
    lng |-> Or(base.lng, other.lng),
    website |-> Or(base.website, other.website),
    phone |-> Or(base.phone, other.phone),
    source |-> base.source,
    googlePlaceId |-> Or(base.googlePlaceId, other.googlePlaceId),
    types |-> Or(base.types, other.types),
    osmId |-> Or(base.osmId, other.osmId),
    osmType |-> Or(base.osmType, other.osmType),
    mergedFrom |-> List(Unique(MergedFromOrSource(base) \o MergedFromOrSource(other))),
    isIndependent |-> Undef,
    chainName |-> Undef ]

\* mutant: the lower priority wins
IncomingIsBaseReversed(existing, incoming) ==
  sourcePriority(incoming.source) < sourcePriority(existing.source)
\* mutant: the incoming record wins a tie
IncomingIsBaseOnTie(existing, incoming) ==
  sourcePriority(incoming.source) >= sourcePriority(existing.source)

\* whether the incoming record is the base of the merge
IncomingIsBase(existing, incoming) ==
  sourcePriority(incoming.source) > sourcePriority(existing.source)

\* the merge of a pair << base, other >>
MergedPair(pair) == MergedRecord(pair[1], pair[2])

mergeShops(existing, incoming) ==
  MergedPair(IF IncomingIsBase(existing, incoming)
             THEN << incoming, existing >>
             ELSE << existing, incoming >>)

\* the index found, were no cluster ever taken for a duplicate
FirstDuplicateNone(uniq, entry) == 0

\* index of the first cluster the entry duplicates, 0 when there is none
FirstDuplicate(uniq, entry) ==
  FirstIndex({ i \in 1..Len(uniq) : areDuplicates(uniq[i], entry) })

\* the clusters after the entry met cluster i, were the normalized values of
\* the merged record not recomputed
MergeIntoStale(uniq, entry, i) ==
  IF i > 0
  THEN [uniq EXCEPT ![i].shop = mergeShops(uniq[i].shop, entry.shop)]
  ELSE Append(uniq, entry)

\* the clusters after the entry met cluster i (i = 0: no cluster)
MergeInto(uniq, entry, i) ==
  IF i > 0
  THEN [uniq EXCEPT ![i] = precomputeNormalized(mergeShops(uniq[i].shop, entry.shop))]
  ELSE Append(uniq, entry)

\* one iteration of the outer loop of deduplicateShops
DedupOne(uniq, entry) == MergeInto(uniq, entry, FirstDuplicate(uniq, entry))

RECURSIVE DedupEntries(_, _)
\* the outer loop of deduplicateShops over the entries still to handle
DedupEntries(uniq, rest) ==
  IF rest = <<>> THEN uniq
  ELSE DedupEntries(DedupOne(uniq, Head(rest)), Tail(rest))

\* deduplicateShops(shops)
\* uniqueEntries.map((entry) => entry.shop)
ShopsOf(uniq) == [i \in 1..Len(uniq) |-> uniq[i].shop]
deduplicateShops(shops) ==
  ShopsOf(DedupEntries(<<>>, [i \in 1..Len(shops) |-> precomputeNormalized(shops[i])]))

\* ------------------------------------------------------------------------
\* URLs (new URL(x)), for the http and https addresses the shops carry
\* ------------------------------------------------------------------------
RECURSIVE FirstOfFrom(_, _, _)
\* first position at or after i whose character is in the set cs, else Len(s)+1
FirstOfFrom(s, cs, i) ==
  IF i > Len(s) THEN Len(s) + 1
  ELSE IF Ch(s, i) \in cs THEN i ELSE FirstOfFrom(s, cs, i + 1)

AllIn(s, cs) == \A i \in 1..Len(s) : Ch(s, i) \in cs

\* the characters a host name of the model may hold
HostSet == LowerSet \cup UpperSet \cup DigitSet \cup {".", "-"}

\* the length of the scheme prefix (http:// or https://, in any case), else 0
SchemeLen(s) ==
  IF Len(s) >= 8 /\ toLowerCase(SubSeq(s, 1, 8)) = "https://" THEN 8
  ELSE IF Len(s) >= 7 /\ toLowerCase(SubSeq(s, 1, 7)) = "http://" THEN 7
  ELSE 0

\* the URL of the parts found in the string: the constructor throws on a
\* missing scheme, an empty or malformed host and a malformed port
URLOfParts(protocol, host, rawPort, path, rest) ==
  IF protocol = "" \/ host = "" \/ ~AllIn(host, HostSet) \/ ~AllIn(rawPort, DigitSet)
  THEN [ ok |-> FALSE ]
  ELSE [ ok |-> TRUE,
         protocol |-> protocol,
         hostname |-> toLowerCase(host),
         \* the default port of the scheme is dropped
         port |-> IF << protocol, rawPort >> \in { << "https:", "443" >>, << "http:", "80" >> }
                  THEN "" ELSE rawPort,
         pathname |-> IF path = "" THEN "/" ELSE path,
         rest |-> rest ]

\* the authority host[:port], split at its first colon (position colon, 0 = none)
SplitAuthority(protocol, authority, colon, path, rest) ==
  URLOfParts(protocol,
             IF colon = 0 THEN authority ELSE SubSeq(authority, 1, colon - 1),
             IF colon = 0 THEN "" ELSE From(authority, colon + 1),
             path, rest)

\* the string cut at the end of the authority and at the end of the path
CutURL(s, n, hostEnd, pathEnd) ==
  SplitAuthority(IF n = 0 THEN "" ELSE toLowerCase(SubSeq(s, 1, n - 2)),
                 SubSeq(s, n + 1, hostEnd - 1),
                 IndexOfFrom(SubSeq(s, n + 1, hostEnd - 1), ":", 1),
                 SubSeq(s, hostEnd, pathEnd - 1),
                 From(s, pathEnd))

\* the string with its scheme of length n and its authority ending before hostEnd
CutPath(s, n, hostEnd) == CutURL(s, n, hostEnd, FirstOfFrom(s, {"?", "#"}, hostEnd))

\* the string with its scheme of length n
CutAuthority(s, n) == CutPath(s, n, FirstOfFrom(s, {"/", "?", "#"}, n + 1))

\* new URL(s): [ok |-> FALSE] when the constructor throws, else the parts
\* protocol, hostname, port, pathname and the rest (search and hash)
ParseURL(s) == CutAuthority(s, SchemeLen(s))

\* url.href
Href(u) ==
  u.protocol \o "//" \o u.hostname \o (IF u.port = "" THEN "" ELSE ":" \o u.port)
    \o u.pathname \o u.rest

endsWith(s, suffix) ==
  Len(suffix) <= Len(s) /\ SubSeq(s, Len(s) - Len(suffix) + 1, Len(s)) = suffix
startsWith(s, prefix) == LitAt(s, 1, prefix)

\* url.hostname.replace(/^www\./, '').toLowerCase()
BareHost(u) ==
  toLowerCase(IF startsWith(u.hostname, "www.") THEN From(u.hostname, 5) ELSE u.hostname)

\* ------------------------------------------------------------------------
\* Classifier (scripts/processors/classifier.js)
\* ------------------------------------------------------------------------
STORE_TYPES == << "store", "sporting_goods_store", "retail" >>

SKATE_NAME_PATTERNS == << "skate", "sk8", "board", "deck", "shred", "thrash" >>

SKIP_PATTERNS ==
  << "fingerboard", "finger board", "tech deck", "mini skate", "miniskate",
     "ice skate", "iceskate", "ice rink", "icerink", "skating rink", "skatingrink",
     "figure skating", "figureskating", "figure skater", "figureskater",
     "hockey", "pure hockey", "purehockey", "great skate", "greatskate",
     "skater's edge", "skaters edge", "skatersedge", "ice arena", "icearena",
     "ice center", "icecenter", "ice centre", "icecentre",
     "skate sharpening", "skatesharpening", "blade sharpening", "bladesharpening",
     "skate anytime", "skateanytime", "synthetic ice", "syntheticice",
     "artificial ice", "artificialice", "roller skate", "rollerskate",
     "roller rink", "rollerrink", "roller derby", "rollerderby",
     "roller disco", "rollerdisco", "sport authority", "sports authority",
     "sportsauthority", "dick's sporting", "dicks sporting", "dickssporting",
     "big 5 sporting", "big5sporting", "academy sports", "academysports",
     "front row sport", "frontrowsport" >>

EXCLUDED_TYPES ==
  << "ice_skating_rink", "skating_rink", "stadium", "arena", "department_store" >>

\* the display names of CHAIN_PATTERNS, in order
ChainPatternNames ==
  << "Zumiez", "Vans", "Tactics", "CCS", "Tilly's", "PacSun", "Active Ride Shop",
     "Empire", "Skate Warehouse" >>

\* a b c with \s* between the parts, at position i and followed by \b
SpacedTripleAt(s, i, a, b, c) ==
  IF ~LitAt(s, i, a) THEN 0
  ELSE LET k == SkipSpaces(s, i + Len(a))
       IN IF ~LitAt(s, k, b) THEN 0 ELSE SpacedPairAt(s, k, b, c)

\* CHAIN_PATTERNS[k].pattern matched at position i of the lower-cased name
\* (every pattern is /i and starts with \b)
ChainPatternAt(k, s, i) ==
  WordBoundaryAt(s, i) /\
  CASE k = 1 -> WordAt(s, i, "zumiez") > 0
    [] k = 2 -> \/ WordAt(s, i, "vans") > 0
                \/ SpacedPairAt(s, i, "vans", "store") > 0
                \/ SpacedPairAt(s, i, "vans", "outlet") > 0
    [] k = 3 -> WordAt(s, i, "tactics") > 0
    [] k = 4 -> WordAt(s, i, "ccs") > 0
    [] k = 5 -> WordAt(s, i, "tilly's") > 0 \/ WordAt(s, i, "tillys") > 0
    [] k = 6 -> WordAt(s, i, "pacsun") > 0
    [] k = 7 -> SpacedTripleAt(s, i, "active", "ride", "shop") > 0
    [] k = 8 -> SpacedPairAt(s, i, "empire", "skate") > 0
    [] k = 9 -> WordAt(s, i, "skatewarehouse") > 0

\* chain.pattern.test(name)
\* CHAIN_PATTERNS[k].pattern matches somewhere in the lower-cased name
ChainPatternIn(k, s) == \E i \in 1..Len(s) : ChainPatternAt(k, s, i)
ChainPatternTest(k, name) == ChainPatternIn(k, toLowerCase(name))

CHAIN_WEBSITES ==
  << "zumiez.com", "vans.com", "tactics.com", "ccs.com", "tillys.com", "pacsun.com",
     "activeridestore.com", "skatewarehouse.com" >>

\* chainDomain.split('.')[0]
DomainLabel(domain) == BeforeFirstDot(domain)

\* the name of CHAIN_PATTERNS[k], Null for k = 0 (no pattern matched)
ChainNameAt(k) == IF k = 0 THEN Null ELSE Str(ChainPatternNames[k])

\* matchChainByName(name): Str(chainName) or Null
matchChainByName(name) ==
  IF ~Truthy(name) THEN Null
  ELSE ChainNameAt(FirstIndex({ j \in 1..Len(ChainPatternNames) : ChainPatternTest(j, name.v) }))

\* the label of CHAIN_WEBSITES[k], Null for k = 0 (no domain matched)
ChainLabelAt(k) == IF k = 0 THEN Null ELSE Str(DomainLabel(CHAIN_WEBSITES[k]))

\* the chain of a host name: the first domain it equals or is a subdomain of
ChainOfHost(hostname) ==
  ChainLabelAt(FirstIndex({ j \in 1..Len(CHAIN_WEBSITES) :
                              \/ hostname = CHAIN_WEBSITES[j]
                              \/ endsWith(hostname, "." \o CHAIN_WEBSITES[j]) }))

\* the chain of a parsed URL, Null when the constructor threw
ChainOfURL(u) == IF ~u.ok THEN Null ELSE ChainOfHost(BareHost(u))

\* matchChainByWebsite(website): Str(chainName) or Null
matchChainByWebsite(website) ==
  IF ~Truthy(website) THEN Null ELSE ChainOfURL(ParseURL(website.v))

\* matchKnownChain(shop): the chain name as Str, or Null; the two loops are
\* those of matchChainByName and matchChainByWebsite
matchKnownChain(shop) == Or(matchChainByName(shop.name), matchChainByWebsite(shop.website))

\* SKATE_NAME_PATTERNS.some((p) => p.test(s)), s already lower-cased
HasSkatePattern(s) == \E k \in 1..Len(SKATE_NAME_PATTERNS) : includes(s, SKATE_NAME_PATTERNS[k])
\* SKIP_PATTERNS.some((p) => s.includes(p))
HasSkipPattern(s) == \E k \in 1..Len(SKIP_PATTERNS) : includes(s, SKIP_PATTERNS[k])

\* shop.types || []
TypesOf(shop) == IF Truthy(Field(shop, "types")) THEN shop.types.v ELSE <<>>
HasType(types, t) == \E i \in 1..Len(types) : types[i] = t

Confidence(level, reason) == [ level |-> level, reason |-> reason ]

\* the result of the website block of calculateConfidence (lines 180-194):
\* a confidence, or <<>> when the block falls through
\* lines 184-189 on the host name: a confidence, or <<>> when no skate
\* pattern matches it
\* lines 185-190 on the hostname, were the skip list not consulted
HostConfidenceSkipUnchecked(hostname) ==
  IF ~HasSkatePattern(hostname) THEN <<>>
  ELSE << Confidence("good", "Store with skate-related website") >>

HostConfidence(hostname) ==
  IF ~HasSkatePattern(hostname) THEN <<>>
  ELSE IF HasSkipPattern(hostname)
       THEN << Confidence("exclude", "Website matches skip pattern") >>
       ELSE << Confidence("good", "Store with skate-related website") >>

\* lines 182-193 on the parsed URL; <<>> when the constructor threw
URLConfidence(u) == IF ~u.ok THEN <<>> ELSE HostConfidence(BareHost(u))

\* the result of the website block of calculateConfidence (lines 180-194):
\* a confidence, or <<>> when the block falls through
WebsiteConfidence(shop, hasStoreType) ==
  IF ~(hasStoreType /\ Truthy(shop.website)) THEN <<>>
  ELSE URLConfidence(ParseURL(shop.website.v))

\* mutant: the skip list is consulted before the excluded types
TypeConfidenceSkipFirst(types, name, hasStoreType) ==
  IF HasSkipPattern(name)
  THEN Confidence("exclude", "Name matches skip pattern")
  ELSE IF \E k \in 1..Len(EXCLUDED_TYPES) : HasType(types, EXCLUDED_TYPES[k])
       THEN Confidence("exclude", "Has excluded type")
  ELSE IF hasStoreType
       THEN Confidence("review", "Store type but no clear skateboard indicator")
  ELSE Confidence("exclude", "No store type")

\* lines 196-212 of calculateConfidence
TypeConfidence(types, name, hasStoreType) ==
  IF \E k \in 1..Len(EXCLUDED_TYPES) : HasType(types, EXCLUDED_TYPES[k])
  THEN Confidence("exclude", "Has excluded type")
  ELSE IF HasSkipPattern(name)
       THEN Confidence("exclude", "Name matches skip pattern")
  ELSE IF hasStoreType
       THEN Confidence("review", "Store type but no clear skateboard indicator")
  ELSE Confidence("exclude", "No store type")

\* lines 170-177 of calculateConfidence: a confidence, or <<>> when the block
\* falls through
NameConfidence(name, hasStoreType) ==
  IF ~(hasStoreType /\ HasSkatePattern(name)) THEN <<>>
  ELSE IF HasSkipPattern(name)
       THEN << Confidence("exclude", "Name matches skip pattern") >>
       ELSE << Confidence("good", "Store with skate-related name") >>

\* mutant: the excluded types are checked before the name and website blocks
ConfidenceFromTypesFirst(shop, types, name, chainMatch, hasStoreType) ==
  IF Truthy(chainMatch) THEN Confidence("high", "Known chain: " \o chainMatch.v)
  ELSE IF HasType(types, "skateboard_shop")
       THEN Confidence("high", "Has skateboard_shop type")
  ELSE IF HasType(types, "skateboard_park") /\ hasStoreType
       THEN Confidence("very_high", "Skate park with store")
  ELSE IF \E k \in 1..Len(EXCLUDED_TYPES) : HasType(types, EXCLUDED_TYPES[k])
       THEN Confidence("exclude", "Has excluded type")
  ELSE IfEmpty(NameConfidence(name, hasStoreType) \o WebsiteConfidence(shop, hasStoreType),
               << TypeConfidence(types, name, hasStoreType) >>)[1]

\* lines 154-212 of calculateConfidence, on its locals
ConfidenceFrom(shop, types, name, chainMatch, hasStoreType) ==
  IF Truthy(chainMatch) THEN Confidence("high", "Known chain: " \o chainMatch.v)
  ELSE IF HasType(types, "skateboard_shop")
       THEN Confidence("high", "Has skateboard_shop type")
  ELSE IF HasType(types, "skateboard_park") /\ hasStoreType
       THEN Confidence("very_high", "Skate park with store")
  \* the name block first, the website block next, the remaining checks last
  ELSE IfEmpty(NameConfidence(name, hasStoreType) \o WebsiteConfidence(shop, hasStoreType),
               << TypeConfidence(types, name, hasStoreType) >>)[1]

\* STORE_TYPES.some((t) => types.includes(t))
HasStoreType(types) == \E k \in 1..Len(STORE_TYPES) : HasType(types, STORE_TYPES[k])

\* calculateConfidence with its first locals computed
ConfidenceWith(shop, types) ==
  ConfidenceFrom(shop, types, toLowerCase(IF Truthy(shop.name) THEN shop.name.v ELSE ""),
                 matchKnownChain(shop), HasStoreType(types))

calculateConfidence(shop) == ConfidenceWith(shop, TypesOf(shop))

\* classifyShop(shop)
\* lines 274-298 of classifyShop: match is the name match or, when there is
\* none, the website match
ClassifiedAs(shop, match) ==
  IF Truthy(match)
  THEN [shop EXCEPT !.isIndependent = Bool(FALSE), !.chainName = match]
  ELSE [shop EXCEPT !.isIndependent = Bool(TRUE)]

classifyShop(shop) ==
  IF shop.isIndependent = Bool(FALSE) \/ Truthy(shop.chainName)
  THEN [shop EXCEPT !.isIndependent = Bool(FALSE),
                    !.chainName = Or(shop.chainName, Str("Unknown Chain"))]
  ELSE ClassifiedAs(shop, Or(matchChainByName(shop.name), matchChainByWebsite(shop.website)))

\* classifyShops(shops)
classifyShops(shops) == [i \in 1..Len(shops) |-> classifyShop(shops[i])]

\* ------------------------------------------------------------------------
\* Normalizer (scripts/processors/normalizer.js)
\* ------------------------------------------------------------------------
RECURSIVE ReplaceFrom(_, _, _, _)
ReplaceFrom(s, lit, rep, i) ==
  IF i > Len(s) THEN ""
  ELSE IF LitAt(s, i, lit) THEN rep \o ReplaceFrom(s, lit, rep, i + Len(lit))
  ELSE Ch(s, i) \o ReplaceFrom(s, lit, rep, i + 1)
\* s.replace(/lit/g, rep) for a literal
ReplaceAll(s, lit, rep) == ReplaceFrom(s, lit, rep, 1)

\* normalizeName on a string
normalizeNameStr(s) ==
  ReplaceAll(ReplaceAll(ReplaceAll(trim(CollapseWhitespace(s)), "&amp;", "&"),
                        "&#39;", "'"),
             "&quot;", "\"")

\* normalizeName(name)
normalizeName(name) ==
  IF ~Truthy(name) THEN Str("Unknown Skateshop") ELSE Str(normalizeNameStr(name.v))

RECURSIVE DigitsFrom(_, _)
DigitsFrom(s, i) ==
  IF i > Len(s) THEN ""
  ELSE (IF IsDigit(Ch(s, i)) THEN Ch(s, i) ELSE "") \o DigitsFrom(s, i + 1)

\* (XXX) XXX-XXXX of ten digits
FormatPhone(d) == "(" \o SubSeq(d, 1, 3) \o ") " \o SubSeq(d, 4, 6) \o "-" \o SubSeq(d, 7, 10)

\* normalizePhone(phone)
\* lines 39-49 of normalizePhone, on the digits of the phone number
PhoneOfDigits(phone, digits) ==
  IF Len(digits) = 10 THEN Str(FormatPhone(digits))
  ELSE IF Len(digits) = 11 /\ startsWith(digits, "1")
       THEN Str(FormatPhone(From(digits, 2)))
  ELSE Str(trim(phone.v))

normalizePhone(phone) ==
  IF ~Truthy(phone) THEN Null ELSE PhoneOfDigits(phone, DigitsFrom(phone.v, 1))

\* lines 79-97 of normalizeWebsite, on the result of new URL(normalized)
WebsiteOfURL(parsed) ==
  IF ~parsed.ok THEN Null
  ELSE IF ~includes(parsed.hostname, ".") THEN Null
  ELSE IF parsed.pathname = "/"
       THEN Str(parsed.protocol \o "//" \o parsed.hostname
                  \o (IF parsed.port = "" THEN "" ELSE ":" \o parsed.port))
  ELSE Str(Href(parsed))

\* lines 63-97 of normalizeWebsite, on the trimmed string and the length of
\* its scheme prefix (0: /^https?:\/\//i does not match)
WebsiteOfTrimmed(trimmed, scheme) ==
  IF Len(trimmed) < 4 \/ trimmed = "http://" \/ trimmed = "https://" THEN Null
  ELSE IF scheme = 0 /\ ~startsWith(trimmed, "www.") /\ ~includes(trimmed, ".") THEN Null
  ELSE WebsiteOfURL(ParseURL(IF scheme > 0 THEN trimmed ELSE "https://" \o trimmed))

\* normalizeWebsite on a string, were the protocol added without the test of line 67
WebsiteOfStringSchemeUntested(trimmed) == WebsiteOfTrimmed(trimmed, 0)

\* normalizeWebsite on a string
WebsiteOfString(trimmed) == WebsiteOfTrimmed(trimmed, SchemeLen(trimmed))

\* normalizeWebsite(url)
normalizeWebsite(url) == IF ~Truthy(url) THEN Null ELSE WebsiteOfString(trim(url.v))

ABBREVIATIONS == << "St", "Ave", "Blvd", "Rd", "Dr", "Ln", "Ct", "Pl" >>

RECURSIVE AbbrevFrom(_, _, _)
\* .replace(/\bW\b(?!\.)/g, 'W.')
AbbrevFrom(s, w, i) ==
  IF i > Len(s) THEN ""
  ELSE IF WordBoundaryAt(s, i) /\ WordAt(s, i, w) > 0 /\ ~LitAt(s, i + Len(w), ".")
       THEN w \o "." \o AbbrevFrom(s, w, i + Len(w))
       ELSE Ch(s, i) \o AbbrevFrom(s, w, i + 1)

RECURSIVE AbbrevAll(_, _)
\* the eight abbreviation replacements, in the order of the code
AbbrevAll(s, k) ==
  IF k > Len(ABBREVIATIONS) THEN s ELSE AbbrevAll(AbbrevFrom(s, ABBREVIATIONS[k], 1), k + 1)

RECURSIVE CommaFrom(_, _)
\* .replace(/\s*,\s*/g, ', ')
CommaFrom(s, i) ==
  IF i > Len(s) THEN ""
  ELSE IF LitAt(s, SkipSpaces(s, i), ",")
       THEN ", " \o CommaFrom(s, SkipSpaces(s, SkipSpaces(s, i) + 1))
       ELSE Ch(s, i) \o CommaFrom(s, i + 1)

\* normalizeAddress on a string
normalizeAddressStr(s) == CommaFrom(AbbrevAll(trim(CollapseWhitespace(s)), 1), 1)

\* normalizeAddress(address)
normalizeAddress(address) ==
  IF ~Truthy(address) THEN Null ELSE Str(normalizeAddressStr(address.v))

\* normalizeCoordinate(coord): Math.round(coord * 1000000) / 1000000, on
\* coordinates held in units of 1e-7 degree (Math.round rounds a half up)
normalizeCoordinate(coord) ==
  IF ~IsNum(coord) THEN Null ELSE Num(((coord.v + 5) \div 10) * 10)

\* a string method is called on a truthy value that is no string
NormalizeThrows(shop) ==
  \E f \in {"name", "address", "website", "phone"} : Truthy(shop[f]) /\ ~IsStr(shop[f])

\* normalizeShop(shop): the fields the returned object has
normalizeShop(shop) ==
  [ id |-> shop.id,
    name |-> normalizeName(shop.name),
    address |-> normalizeAddress(shop.address),
    lat |-> normalizeCoordinate(shop.lat),
    lng |-> normalizeCoordinate(shop.lng),
    website |-> normalizeWebsite(shop.website),
    phone |-> normalizePhone(shop.phone),
    isIndependent |-> shop.isIndependent,
    _source |-> shop.source,
    _osmId |-> shop.osmId,
    _mergedFrom |-> shop.mergedFrom ]

\* normalizeShops(shops)
normalizeShops(shops) == [i \in 1..Len(shops) |-> normalizeShop(shops[i])]

\* one record of prepareForOutput; website and phone are set only when truthy
OutputRecord(shop) ==
  [ id |-> shop.id, name |-> shop.name, address |-> shop.address,
    lat |-> shop.lat, lng |-> shop.lng, isIndependent |-> shop.isIndependent,
    website |-> IF Truthy(shop.website) THEN shop.website ELSE Undef,
    phone |-> IF Truthy(shop.phone) THEN shop.phone ELSE Undef ]

\* prepareForOutput(shops)
prepareForOutput(shops) == [i \in 1..Len(shops) |-> OutputRecord(shops[i])]

\* ------------------------------------------------------------------------
\* Geocoder (scripts/processors/geocoder.js)
\* ------------------------------------------------------------------------
\* USA_BOUNDS, in units of 1e-7 degree
USA_MIN_LAT == 245000000
USA_MAX_LAT == 495000000
USA_MIN_LNG == -1250000000
USA_MAX_LNG == -665000000

\* a relational comparison of a value with a number: false for undefined and
\* NaN, null compares as 0, a string that spells a number as that number
Comparable(x) == x.t \in {"num", "null", "numstr"}
NumberOf(x) == IF x.t \in {"num", "numstr"} THEN x.v ELSE 0

\* isWithinUSA(lat, lng)
isWithinUSA(lat, lng) ==
  /\ Comparable(lat) /\ Comparable(lng)
  /\ NumberOf(lat) >= USA_MIN_LAT /\ NumberOf(lat) <= USA_MAX_LAT
  /\ NumberOf(lng) >= USA_MIN_LNG /\ NumberOf(lng) <= USA_MAX_LNG

\* validateCoordinates(shop) with enrichMissingAddress false; geo is what
\* forwardGeocode returns for the address: Null or [lat |-> .., lng |-> ..].
\* The result is << >> when _validCoords is false, else << shop >>.
validateCoordinates(shop, geo) ==
  IF shop.lat = Null \/ shop.lng = Null
  THEN IF Truthy(shop.address) /\ geo # Null
       THEN << [shop EXCEPT !.lat = geo.lat, !.lng = geo.lng] >>
       ELSE << >>
  ELSE IF ~isWithinUSA(shop.lat, shop.lng) THEN << >>
  ELSE << shop >>

\* what forwardGeocode returns for an address under the answers geocode
GeoAnswer(geocode, address) ==
  IF address \in DOMAIN geocode THEN geocode[address] ELSE Null

RECURSIVE validateAllCoordinates(_, _)
\* validateAllCoordinates(shops); geocode maps an address to the answer of
\* the geocoding service
validateAllCoordinates(shops, geocode) ==
  IF shops = << >> THEN << >>
  ELSE validateCoordinates(Head(shops), GeoAnswer(geocode, Head(shops).address))
         \o validateAllCoordinates(Tail(shops), geocode)

\* ------------------------------------------------------------------------
\* Shop records
\* ------------------------------------------------------------------------
\* a source record; the fields a loader does not set are undefined
Shop(id, name, address, lat, lng, website, phone, source, placeId, types, indep, chain) ==
  [ id |-> id, name |-> name, address |-> address, lat |-> lat, lng |-> lng,
    website |-> website, phone |-> phone, source |-> source,
    googlePlaceId |-> placeId, types |-> types, osmId |-> Undef, osmType |-> Undef,
    mergedFrom |-> Undef, isIndependent |-> indep, chainName |-> chain ]

\* degrees, as whole and 1e-7 parts
Deg(whole, parts) == Num(whole * 10000000 + parts)

\* the records the inputs of deduplicateShops are drawn from
DedupCatalogue ==
  << Shop(Str("g1"), Str("Cool Skate Shop"), Str("123 Main, Los Angeles, CA"),
          Deg(34, 0), Deg(-118, 0), Null, Str("555-1234"), Str("google-places"),
          Str("p1"), List(<<"store">>), Undef, Undef),
     Shop(Str("manual-0"), Str("Cool Skateshop"), Str("456 Oak, Los Angeles, CA"),
          Deg(34, 1000000), Deg(-118, -1000000), Str("https://coolskate.com"), Null,
          Str("manual"), Undef, Undef, Bool(TRUE), Undef),
     [ Shop(Str("osm-3"), Str("Cool Skate Shop"), Str("456 Oak, San Francisco, CA"),
            Deg(37, 0), Deg(-122, 0), Null, Null, Str("osm"), Undef, Undef, Undef, Undef)
       EXCEPT !.osmId = Num(3), !.osmType = Str("node") ],
     Shop(Str("chain-4"), Str("Zumiez"), Null, Deg(34, 500), Deg(-118, -500),
          Str("https://www.zumiez.com"), Null, Str("chain"), Undef, Undef,
          Bool(FALSE), Str("Zumiez")),
     [ Shop(Str("osm-5"), Str("Cool  Skate Shop"), Null, Null, Null, Null,
            Str("555-9999"), Str("osm"), Undef, Undef, Undef, Undef)
       EXCEPT !.osmId = Num(5), !.osmType = Str("way") ],
     Shop(Str("g6"), Str("Equator Boards"), Null, Num(0), Deg(-78, -5000000),
          Null, Null, Str("google-places"), Str("p6"), List(<<"store">>), Undef, Undef),
     Shop(Str("manual-1"), Str("Zero Deck"), Null, Num(0), Deg(-78, -5000200),
          Null, Null, Str("manual"), Undef, Undef, Bool(FALSE), Undef),
     Shop(Str("g8"), Str("Zero Deck Shop"), Null, Deg(40, 0), Deg(-75, 0),
          Str("https://zerodeck.com"), Null, Str("google-places"), Str("p8"),
          List(<<"store">>), Undef, Undef) >>

\* longest input list of deduplicateShops
MaxShops == 3

RECURSIVE SeqsUpTo(_, _)
\* the sequences over S of length at most n
SeqsUpTo(S, n) ==
  IF n = 0 THEN { <<>> }
  ELSE LET shorter == SeqsUpTo(S, n - 1)
       IN shorter \cup { Append(q, x) : q \in { r \in shorter : Len(r) = n - 1 }, x \in S }

Range(q) == { q[i] : i \in 1..Len(q) }

\* ------------------------------------------------------------------------
\* The values the variables of a part hold while another part is studied
\* ------------------------------------------------------------------------
DedupIdle == entries = << >> /\ unique = << >> /\ dPos = 0

FilterIdle ==
  /\ fShops = << >> /\ fRemoved = {} /\ fApproved = {}
  /\ included = << >> /\ pendingReview = << >> /\ scored = << >> /\ fPos = 0

\* no session is running
NoSession ==
  [ active |-> FALSE, pending |-> << >>, i |-> 0, approved |-> << >>, removed |-> << >>,
    remaining |-> << >>, shopsData |-> << >>, approvedShops |-> << >>,
    deniedShops |-> << >>, answers |-> << >> ]

\* no collect run has happened
NoRun ==
  [ status |-> "none", exit |-> "", sources |-> << >>, supplied |-> << >>,
    routed |-> << >>, written |-> << >>, wroteShops |-> FALSE, wrotePending |-> FALSE ]

\* no record is being classified
ClassIdle == cShop = << >> /\ cConfidence = << >> /\ cClassified = << >>

\* no record is being normalized
NormIdle == nShop = << >> /\ nShops = << >> /\ nWebsite = << >> /\ nAgain = << >>

PipeIdle ==
  /\ removedFile = << >> /\ approvedFile = << >> /\ pendingFile = << >>
  /\ shopsFile = << >> /\ run = NoRun /\ session = NoSession
  /\ decided = [ approved |-> {}, denied |-> {}, ended |-> "" ]

\* ------------------------------------------------------------------------
\* deduplicateShops as a loop, one step per incoming entry
\* ------------------------------------------------------------------------
DedupInit ==
  /\ \E shops \in SeqsUpTo(Range(DedupCatalogue), MaxShops) :
       entries = [i \in 1..Len(shops) |-> precomputeNormalized(shops[i])]
  /\ unique = <<>>
  /\ dPos = 0
  /\ FilterIdle
  /\ PipeIdle
  /\ ClassIdle
  /\ NormIdle

\* the incoming entry duplicates a cluster: merge into the first such cluster
DedupMerge ==
  /\ dPos < Len(entries)
  /\ FirstDuplicate(unique, entries[dPos + 1]) > 0
  /\ unique' = DedupOne(unique, entries[dPos + 1])
  /\ dPos' = dPos + 1
  /\ UNCHANGED << entries, filterVars, pipeVars, classVars, normVars >>

\* the incoming entry duplicates no cluster: it starts a new one
DedupPush ==
  /\ dPos < Len(entries)
  /\ FirstDuplicate(unique, entries[dPos + 1]) = 0
  /\ unique' = DedupOne(unique, entries[dPos + 1])
  /\ dPos' = dPos + 1
  /\ UNCHANGED << entries, filterVars, pipeVars, classVars, normVars >>

DedupNext == DedupMerge \/ DedupPush

SpecDedup == DedupInit /\ [][DedupNext]_vars

DedupDone == dPos = Len(entries)
\* the input list and the returned list of deduplicateShops
DedupInput == [i \in 1..Len(entries) |-> entries[i].shop]
DedupResult == [i \in 1..Len(unique) |-> unique[i].shop]

\* ------------------------------------------------------------------------
\* Claims about deduplicateShops (checked under SpecDedup)
\* ------------------------------------------------------------------------
\* the fields mergeShops fills from the base first and from the other record next
MergedFields ==
  { "name", "address", "lat", "lng", "website", "phone", "googlePlaceId", "types",
    "osmId", "osmType" }

NumericCoords(shop) == IsNum(shop.lat) /\ IsNum(shop.lng)
WithinThreshold(a, b) ==
  coordinateDistanceSq(a.lat.v, a.lng.v, b.lat.v, b.lng.v)
    < COORDINATE_THRESHOLD * COORDINATE_THRESHOLD
TopPriority(shops) ==
  CHOOSE p \in { sourcePriority(shops[i].source) : i \in 1..Len(shops) } :
    \A i \in 1..Len(shops) : sourcePriority(shops[i].source) <= p

\* C1: when deduplicateShops returns, no two distinct returned records are
\* duplicates of each other (areDuplicates is false for every pair of them).
C1_NoMutualDuplicates ==
  DedupDone =>
    \A i, j \in 1..Len(unique) :
      i # j => ~areDuplicates(precomputeNormalized(unique[i].shop),
                              precomputeNormalized(unique[j].shop))

\* C2: when every input record has numeric lat and lng and the inputs lie
\* pairwise within the coordinate threshold, deduplicateShops returns exactly
\* one record, whose source is that of an input of the highest source priority.
C2_CloseInputsGiveOneRecord ==
  ( /\ DedupDone
    /\ Len(entries) >= 1
    /\ \A i \in 1..Len(entries) : NumericCoords(entries[i].shop)
    /\ \A i, j \in 1..Len(entries) : WithinThreshold(entries[i].shop, entries[j].shop) )
  => /\ Len(unique) = 1
     /\ \E i \in 1..Len(entries) :
          /\ sourcePriority(entries[i].shop.source) = TopPriority(DedupInput)
          /\ unique[1].shop.source = entries[i].shop.source

\* two input records that are duplicates and differ in source priority
TwoOfDifferentPriority ==
  /\ Len(entries) = 2
  /\ areDuplicates(entries[1], entries[2])
  /\ sourcePriority(entries[1].shop.source) # sourcePriority(entries[2].shop.source)
HigherOfTwo ==
  IF sourcePriority(entries[2].shop.source) > sourcePriority(entries[1].shop.source)
  THEN entries[2].shop ELSE entries[1].shop
LowerOfTwo ==
  IF sourcePriority(entries[2].shop.source) > sourcePriority(entries[1].shop.source)
  THEN entries[1].shop ELSE entries[2].shop

TieMergeInto(i) ==
  /\ dPos < Len(entries)
  /\ dPos' = dPos + 1
  /\ i = FirstDuplicate(unique, entries[dPos + 1])
  /\ sourcePriority(unique[i].shop.source) = sourcePriority(entries[dPos + 1].shop.source)

\* C4 as stated: on a merge of equal source priority the incoming record is
\* the base (the merged id and source are the incoming record's and each
\* merged field is the incoming record's value when present).
C4_TieIncomingIsBase ==
  [][ \A i \in 1..Len(unique) :
        TieMergeInto(i) =>
          LET existing == unique[i].shop
              incoming == entries[dPos + 1].shop
          IN /\ unique'[i].shop.id = incoming.id
             /\ unique'[i].shop.source = incoming.source
             /\ \A f \in MergedFields :
                  unique'[i].shop[f] = IF Truthy(incoming[f]) THEN incoming[f] ELSE existing[f]
    ]_vars

\* C4 amended: on a merge of equal source priority the existing cluster record
\* is the base: the merged id and source are the existing record's and each
\* merged field is the existing record's value when present, else the
\* incoming record's.
C4_TieExistingIsBase ==
  [][ \A i \in 1..Len(unique) :
        TieMergeInto(i) =>
          LET existing == unique[i].shop
              incoming == entries[dPos + 1].shop
          IN /\ unique'[i].shop.id = existing.id
             /\ unique'[i].shop.source = existing.source
             /\ \A f \in MergedFields :
                  unique'[i].shop[f] = IF Truthy(existing[f]) THEN existing[f] ELSE incoming[f]
    ]_vars

\* C4 witness: two records of equal priority and different ids were merged; the
\* cluster kept the first record's id and took the phone from the second
C4_Witness ==
  /\ DedupDone /\ Len(entries) = 2 /\ Len(unique) = 1
  /\ sourcePriority(entries[1].shop.source) = sourcePriority(entries[2].shop.source)
  /\ entries[1].shop.id # entries[2].shop.id
  /\ unique[1].shop.id = entries[1].shop.id
  /\ ~Truthy(entries[1].shop.phone)
  /\ unique[1].shop.phone = entries[2].shop.phone /\ Truthy(entries[2].shop.phone)

\* two input records of one non-empty normalized name, both with a city, that
\* match neither by coordinates nor by address
SameNameBothCities ==
  /\ Len(entries) = 2
  /\ entries[1].name # "" /\ entries[1].name = entries[2].name
  /\ ~matchByCoordinates(entries[1], entries[2])
  /\ ~matchByAddress(entries[1], entries[2])
  /\ Truthy(entries[1].city) /\ Truthy(entries[2].city)

\* C5: for two such records deduplicateShops returns one record when the city
\* tokens are equal and two records when they differ.
C5_NameAndCityDecide ==
  (DedupDone /\ SameNameBothCities) =>
    Len(unique) = IF entries[1].city = entries[2].city THEN 1 ELSE 2

\* C5 witness: same name and same city, merged into one record
C5_Witness ==
  /\ DedupDone /\ SameNameBothCities
  /\ entries[1].city = entries[2].city
  /\ entries[1].shop.address # entries[2].shop.address
  /\ Len(unique) = 1

\* the clusters the entry is a duplicate of
Matches(uniq, entry) == { j \in 1..Len(uniq) : areDuplicates(uniq[j], entry) }
Lowest(S) == CHOOSE j \in S : \A i \in S : j <= i

\* the step merged the entry into cluster k and left every other cluster alone
MergedOnlyInto(k, entry) ==
  /\ Len(unique') = Len(unique)
  /\ \A j \in 1..Len(unique) : j # k => unique'[j] = unique[j]
  /\ unique'[k].shop = mergeShops(unique[k].shop, entry.shop)

\* what one iteration does with the entry
HandledAs(entry, matches) ==
  IF matches = {} THEN unique' = Append(unique, entry)
  ELSE MergedOnlyInto(Lowest(matches), entry)

\* C23: each incoming record changes at most one cluster: it is merged into the
\* lowest-index cluster it is a duplicate of and every other cluster is left
\* unchanged, or, matching none, it is appended as a new last cluster; the
\* cached name, address, street and city of every cluster equal those
\* recomputed from the cluster's current record.
C23_OneClusterChanges ==
  [][ /\ \E entry \in { entries[dPos + 1] } : HandledAs(entry, Matches(unique, entry))
      /\ \A j \in 1..Len(unique') : unique'[j] = precomputeNormalized(unique'[j].shop)
    ]_vars

\* the third record, a duplicate of both clusters, went into the first, whose
\* cached address it changed
C23_Witness ==
  /\ dPos = 3 /\ Len(unique) = 2
  /\ unique[2] = entries[2]
  /\ areDuplicates(entries[2], entries[3])
  /\ unique[1].address # entries[1].address

\* the lists that hold the records of q in another order
Reorderings(q) ==
  { [i \in 1..Len(q) |-> q[f[i]]] : f \in Permutations(1..Len(q)) }

\* three input records: the second is no duplicate of the first, the third is
\* one of the first and, merged with it, gives a record the second duplicates
Bridged ==
  /\ Len(entries) = 3
  /\ ~areDuplicates(entries[1], entries[2])
  /\ areDuplicates(entries[1], entries[3])
  /\ areDuplicates(precomputeNormalized(mergeShops(entries[1].shop, entries[3].shop)),
                   entries[2])

\* C24: the result of deduplicateShops depends on the order of its input: for
\* such a list of three records, the records in another order give another
\* number of clusters.
C24_OrderDecidesClusterCount ==
  (DedupDone /\ Bridged) =>
    \E p \in Reorderings(DedupInput) : Len(deduplicateShops(p)) # Len(unique)

\* two clusters are returned for a list that, with its second and third
\* record exchanged, gives one
C24_Witness ==
  /\ DedupDone /\ Bridged
  /\ Len(unique) = 2
  /\ Len(deduplicateShops(<< entries[1].shop, entries[3].shop, entries[2].shop >>)) = 1

\* the source set an explicit chain flag or a chain name on the record
FlaggedChain(shop) == shop.isIndependent = Bool(FALSE) \/ Truthy(shop.chainName)

\* the clusters classifyShop labels as a chain
ChainClusters == { k \in 1..Len(unique) : classifyShop(unique[k].shop).isIndependent = Bool(FALSE) }

\* C26: a record that carries an explicit chain flag or a chainName keeps it
\* through deduplicateShops, merged or not, so that classifyShop labels the
\* record it ends in as a chain: the returned records hold a chain whenever
\* an input was flagged.
C26_ChainFlagSurvivesDedup ==
  (DedupDone /\ \E i \in 1..Len(entries) : FlaggedChain(entries[i].shop))
    => ChainClusters # {}

\* C28: the (lat, lng) pair of each cluster record is the (lat, lng) pair of
\* one input record handled so far; lat and lng are never taken from two
\* different records.
C28_CoordinatePairOfOneInput ==
  \A k \in 1..Len(unique) :
    \E i \in 1..dPos :
      /\ unique[k].shop.lat = entries[i].shop.lat
      /\ unique[k].shop.lng = entries[i].shop.lng

\* ------------------------------------------------------------------------
\* processShops (scripts/collect-shops.js) and the inputs of a collect run
\* ------------------------------------------------------------------------
RECURSIVE Select(_, _)
\* the elements of q at the positions in keep, in order
Select(q, keep) ==
  IF q = << >> THEN << >>
  ELSE Select(SubSeq(q, 1, Len(q) - 1), keep)
         \o (IF Len(q) \in keep THEN << q[Len(q)] >> ELSE << >>)

\* step 1 of processShops: the quick USA filter
PassesUsaFilter(shop) ==
  IF Truthy(shop.lat) /\ Truthy(shop.lng) THEN isWithinUSA(shop.lat, shop.lng) ELSE TRUE

\* processShops(shops) up to classification: the records normalizeShops is
\* called with
Classified(rawShops, geocode) ==
  classifyShops(
    validateAllCoordinates(
      deduplicateShops(
        Select(rawShops, { i \in 1..Len(rawShops) : PassesUsaFilter(rawShops[i]) })),
      geocode))

\* processShops(shops)
processShops(rawShops, geocode) == normalizeShops(Classified(rawShops, geocode))

\* the shops transformGooglePlacesData returns are drawn from these
GoogleCatalogue ==
  << Shop(Str("google-p1"), Str("Zumiez"), Str("1 Mall Way, Seattle, WA"),
          Deg(47, 6000000), Deg(-122, -3000000), Str("https://www.zumiez.com/stores"),
          Str("206-555-0101"), Str("google-places"), Str("p1"),
          List(<< "clothing_store", "store" >>), Undef, Undef),
     Shop(Str("google-p2"), Str("Main Street Sports"), Str("22 Main St, Reno, NV"),
          Deg(39, 5000000), Deg(-119, -8000000), Null, Null, Str("google-places"),
          Str("p2"), List(<< "sporting_goods_store" >>), Undef, Undef),
     Shop(Str("google-p3"), Str("Local Boardz"), Str("5 Oak Ave, Austin, TX"),
          Deg(30, 2000000), Deg(-97, -7000000), Null, Null, Str("google-places"),
          Str("p3"), List(<< "store" >>), Undef, Undef) >>

\* a record loadManualAdditions returns: it has the nine fields of lines 32-42
ManualShop(id, name, address, lat, lng, website, phone) ==
  [ id |-> id, name |-> name, address |-> address, lat |-> lat, lng |-> lng,
    website |-> website, phone |-> phone, source |-> Str("manual"),
    googlePlaceId |-> Undef, types |-> Undef, osmId |-> Undef, osmType |-> Undef,
    mergedFrom |-> Undef, isIndependent |-> Bool(TRUE), chainName |-> Undef ]

\* the shops loadManualAdditions returns are drawn from these: an entry with
\* null coordinates, so that its address is geocoded, the entry of the README
\* (numeric coordinates) and an entry whose coordinates are written as strings
ManualCatalogue ==
  << ManualShop(Str("manual-0"), Str("Vans Store"), Str("9 Pine Rd, Boise, ID"),
                Null, Null, Null, Null),
     ManualShop(Str("manual-1"), Str("Shop Name"), Str("123 Main St, City, ST 12345"),
                Deg(34, 522000), Deg(-118, -2437000), Str("https://example.com"),
                Str("555-123-4567")),
     ManualShop(Str("manual-2"), Str("Tactics"), Str("375 W 4th Ave, Eugene, OR"),
                NumStr(440520000), NumStr(-1230970000), Null, Null) >>

\* the sublists of a list
Sublists(q) == { Select(q, keep) : keep \in SUBSET (1..Len(q)) }

\* what forwardGeocode (countrycodes=us) may answer: nothing, a place inside
\* USA_BOUNDS (Boise), a place of the country outside them (Honolulu)
GeoAnswers ==
  { Null,
    [ lat |-> Deg(43, 6000000), lng |-> Deg(-116, -2000000) ],
    [ lat |-> Deg(21, 3000000), lng |-> Deg(-157, -8000000) ] }

\* what the Google Places part of collectFromAllSources may meet: no readable
\* raw data file (lines 111-118), a transform that throws (lines 106-110), or
\* the shops transformGooglePlacesData returns
GoogleSides ==
  { [ raw |-> "missing", transform |-> "none", google |-> << >> ],
    [ raw |-> "ok", transform |-> "throws", google |-> << >> ] }
    \cup { [ raw |-> "ok", transform |-> "ok", google |-> google ] :
              google \in Sublists(GoogleCatalogue) }

\* the addresses forwardGeocode is asked about
AskedAddresses(shops) ==
  { shops[i].address : i \in { j \in 1..Len(shops) :
                                  shops[j].lat = Null \/ shops[j].lng = Null } }

\* what manual-additions.json may hold: no entry or one of the catalogue
ManualFiles == { q \in Sublists(ManualCatalogue) : Len(q) <= 1 }

\* what loadManualAdditions may do: reject (lines 134-141), or return shops
ManualSides ==
  { [ load |-> "throws", manual |-> << >>, geocode |-> << >> ] }
    \cup UNION { { [ load |-> "ok", manual |-> manual, geocode |-> geocode ] :
                      geocode \in [ AskedAddresses(manual) -> GeoAnswers ] } :
                  manual \in ManualFiles }

\* the inputs of a collect run: what each source does and, for each address
\* forwardGeocode is asked about, its answer
CollectInputs ==
  { [ raw |-> g.raw, transform |-> g.transform, google |-> g.google,
      load |-> m.load, manual |-> m.manual, geocode |-> m.geocode ] :
      g \in GoogleSides, m \in ManualSides }

\* collectFromAllSources and processShops on one input; they read no file, so
\* the result is a function of the input alone
\* normalizeShops on the classified shops; threw: a string method was called
\* on a value that is no string
Normalized(rawShops, classified, threw) ==
  [ rawShops |-> rawShops,
    classified |-> classified,
    threw |-> threw,
    processed |-> IF threw THEN << >> ELSE normalizeShops(classified) ]

\* processShops from its normalization step on
NormalizeStep(rawShops, classified) ==
  Normalized(rawShops, classified,
             \E i \in 1..Len(classified) : NormalizeThrows(classified[i]))

\* processShops on the shops the sources returned
ProcessStep(rawShops, geocode) == NormalizeStep(rawShops, Classified(rawShops, geocode))

Processing(in) == ProcessStep(in.google \o in.manual, in.geocode)

Processed == [ in \in CollectInputs |-> Processing(in) ]

\* the shops the function-level inputs are drawn from
FilterCatalogue ==
  << Shop(Str("google-p1"), Str("Zumiez"), Str("1 Mall Way, Seattle, WA"),
          Deg(47, 6000000), Deg(-122, -3000000), Str("https://www.zumiez.com/stores"),
          Null, Str("google-places"), Str("p1"), List(<< "clothing_store", "store" >>),
          Undef, Undef),
     Shop(Str("google-p2"), Str("Pure Hockey"), Str("7 Rink Rd, Boston, MA"),
          Deg(42, 3000000), Deg(-71, 0), Null, Null, Str("google-places"),
          Str("p2"), List(<< "store" >>), Undef, Undef),
     Shop(Str("google-p3"), Str("Main Street Sports"), Str("22 Main St, Reno, NV"),
          Deg(39, 5000000), Deg(-119, -8000000), Null, Null, Str("google-places"),
          Str("p3"), List(<< "sporting_goods_store" >>), Undef, Undef),
     \* a record without a place ID
     Shop(Str("manual-0"), Str("Local Boardz"), Str("5 Oak Ave, Austin, TX"),
          Deg(30, 2000000), Deg(-97, -7000000), Null, Null, Str("manual"),
          Undef, List(<< "store" >>), Bool(TRUE), Undef) >>

\* every shop calculateConfidence is called with, and what it returns for it;
\* the function is evaluated once per shop
ScoredShops ==
  Range(FilterCatalogue) \cup UNION { Range(Processed[in].processed) : in \in CollectInputs }
ConfidenceTable == [ shop \in ScoredShops |-> calculateConfidence(shop) ]

\* ------------------------------------------------------------------------
\* applyConfidenceFilter (scripts/collect-shops.js)
\* ------------------------------------------------------------------------
IncludedLevels == { "high", "very_high", "good" }

\* table[x], or other when the table has no x
Lookup(table, x, other) == IF x \in DOMAIN table THEN table[x] ELSE other

\* const confidence = calculateConfidence(shop)
ConfidenceOf(shop) == Lookup(ConfidenceTable, shop, calculateConfidence(shop))

\* the switch on confidence.level
OutcomeOfLevel(level) ==
  IF level \in IncludedLevels THEN "included"
  ELSE IF level = "review" THEN "review"
  ELSE "excluded"

\* the outcome the switch on confidence.level gives a shop
ScoredOutcome(shop) == OutcomeOfLevel(ConfidenceOf(shop).level)

\* placeId && ids.has(placeId)
HasPlaceIdIn(shop, ids) ==
  Truthy(Field(shop, "googlePlaceId")) /\ Field(shop, "googlePlaceId") \in ids

\* mutant: the approved set is consulted before the removed set
FilterOutcomeApprovedFirst(shop, removedIds, approvedIds) ==
  IF HasPlaceIdIn(shop, approvedIds) THEN "approved"
  ELSE IF HasPlaceIdIn(shop, removedIds) THEN "removed"
  ELSE ScoredOutcome(shop)
\* mutant: an approved shop is scored like any other
FilterOutcomeNoBypass(shop, removedIds, approvedIds) ==
  IF HasPlaceIdIn(shop, removedIds) THEN "removed" ELSE ScoredOutcome(shop)
\* mutant: a shop of level review is included
FilterOutcomeReviewIncluded(shop, removedIds, approvedIds) ==
  IF HasPlaceIdIn(shop, removedIds) THEN "removed"
  ELSE IF HasPlaceIdIn(shop, approvedIds) THEN "approved"
  ELSE OutcomeOfLevel(IF ConfidenceOf(shop).level = "review" THEN "good"
                       ELSE ConfidenceOf(shop).level)

\* the branch one iteration of the loop takes: "removed" (skipped, line 232),
\* "approved" (auto-included, line 238), or the outcome of the switch
FilterOutcome(shop, removedIds, approvedIds) ==
  IF HasPlaceIdIn(shop, removedIds) THEN "removed"
  ELSE IF HasPlaceIdIn(shop, approvedIds) THEN "approved"
  ELSE ScoredOutcome(shop)

\* { ...shop, confidenceReason: confidence.reason }
PendingEntry(shop) ==
  [ f \in DOMAIN shop \cup {"confidenceReason"} |->
      IF f = "confidenceReason" THEN Str(ConfidenceOf(shop).reason) ELSE shop[f] ]

\* the shop a pending entry was made from
WithoutReason(entry) == [ f \in DOMAIN entry \ {"confidenceReason"} |-> entry[f] ]

\* the place IDs the removed and the approved set are drawn from
RemovedChoices == { Str("p1"), Str("p3") }
ApprovedChoices == { Str("p2"), Str("p3") }

\* longest shops argument
MaxFilterShops == 3

FilterInit ==
  /\ \E shops \in SeqsUpTo(Range(FilterCatalogue), MaxFilterShops) : fShops = shops
  /\ \E ids \in SUBSET RemovedChoices : fRemoved = ids
  /\ \E ids \in SUBSET ApprovedChoices : fApproved = ids
  /\ included = << >>
  /\ pendingReview = << >>
  /\ scored = << >>
  /\ fPos = 0
  /\ DedupIdle
  /\ PipeIdle
  /\ ClassIdle
  /\ NormIdle

\* the shop the next iteration handles, and the branch it takes
FilterShop == fShops[fPos + 1]
FilterBranch == FilterOutcome(FilterShop, fRemoved, fApproved)

\* lines 231-234: the place ID is in removedIds
FilterSkipRemoved ==
  /\ fPos < Len(fShops)
  /\ FilterBranch = "removed"
  /\ fPos' = fPos + 1
  /\ UNCHANGED << fShops, fRemoved, fApproved, included, pendingReview, scored,
                  dedupVars, pipeVars, classVars, normVars >>

\* lines 237-240: the place ID is in approvedIds
FilterIncludeApproved ==
  /\ fPos < Len(fShops)
  /\ FilterBranch = "approved"
  /\ included' = Append(included, FilterShop)
  /\ fPos' = fPos + 1
  /\ UNCHANGED << fShops, fRemoved, fApproved, pendingReview, scored, dedupVars, pipeVars, classVars, normVars >>

\* lines 243-250: level high, very_high or good
FilterIncludeScored ==
  /\ fPos < Len(fShops)
  /\ FilterBranch = "included"
  /\ scored' = Append(scored, FilterShop)
  /\ included' = Append(included, FilterShop)
  /\ fPos' = fPos + 1
  /\ UNCHANGED << fShops, fRemoved, fApproved, pendingReview, dedupVars, pipeVars, classVars, normVars >>

\* lines 251-256: level review
FilterPend ==
  /\ fPos < Len(fShops)
  /\ FilterBranch = "review"
  /\ scored' = Append(scored, FilterShop)
  /\ pendingReview' = Append(pendingReview, PendingEntry(FilterShop))
  /\ fPos' = fPos + 1
  /\ UNCHANGED << fShops, fRemoved, fApproved, included, dedupVars, pipeVars, classVars, normVars >>

\* lines 257-259: any other level
FilterExclude ==
  /\ fPos < Len(fShops)
  /\ FilterBranch = "excluded"
  /\ scored' = Append(scored, FilterShop)
  /\ fPos' = fPos + 1
  /\ UNCHANGED << fShops, fRemoved, fApproved, included, pendingReview, dedupVars, pipeVars, classVars, normVars >>

FilterNext ==
  \/ FilterSkipRemoved
  \/ FilterIncludeApproved
  \/ FilterIncludeScored
  \/ FilterPend
  \/ FilterExclude

SpecFilter == FilterInit /\ [][FilterNext]_vars

FilterDone == fPos = Len(fShops)

\* ------------------------------------------------------------------------
\* Claims about applyConfidenceFilter (checked under SpecFilter)
\* ------------------------------------------------------------------------
\* the shops handled so far
Handled == SubSeq(fShops, 1, fPos)
PlaceIdOf(shop) == Field(shop, "googlePlaceId")
InNeitherSet(shop) == PlaceIdOf(shop) \notin fRemoved \cup fApproved
LevelOf(shop) == ConfidenceOf(shop).level
PendingShops == [i \in 1..Len(pendingReview) |-> WithoutReason(pendingReview[i])]

RECURSIVE IsSubsequence(_, _)
\* the list a is the list b with some elements left out
IsSubsequence(a, b) ==
  IF a = << >> THEN TRUE
  ELSE IF b = << >> THEN FALSE
  ELSE IF Head(a) = Head(b) THEN IsSubsequence(Tail(a), Tail(b))
  ELSE IsSubsequence(a, Tail(b))

\* C8: a handled shop whose place ID is in neither decision set is in included
\* exactly when its level is high, very_high or good, and in pendingReview,
\* with the reason of calculateConfidence, exactly when its level is review;
\* no shop is in both lists, and each list keeps the input order.
C8_ThreeOutcomes ==
  /\ \A i \in 1..fPos :
       LET shop == fShops[i] IN
       InNeitherSet(shop) =>
         /\ (shop \in Range(included)) <=> (LevelOf(shop) \in IncludedLevels)
         /\ (shop \in Range(PendingShops)) <=> (LevelOf(shop) = "review")
         /\ LevelOf(shop) = "review" =>
              \E k \in 1..Len(pendingReview) :
                /\ WithoutReason(pendingReview[k]) = shop
                /\ pendingReview[k].confidenceReason = Str(ConfidenceOf(shop).reason)
  /\ Range(included) \cap Range(PendingShops) = {}
  /\ IsSubsequence(included, Handled)
  /\ IsSubsequence(PendingShops, Handled)

\* a finished call over three undecided shops, one of each outcome
C8_Witness ==
  /\ FilterDone
  /\ Len(fShops) = 3
  /\ \A i \in 1..3 : InNeitherSet(fShops[i])
  /\ { LevelOf(fShops[i]) : i \in 1..3 } = { "good", "review", "exclude" }
  /\ Len(included) = 1
  /\ Len(pendingReview) = 1

\* C9: a handled shop whose place ID is in the removed set is in neither list,
\* also when the ID is in the approved set as well.
C9_RemovedNeverReturned ==
  \A i \in 1..fPos :
    PlaceIdOf(fShops[i]) \in fRemoved =>
      /\ fShops[i] \notin Range(included)
      /\ fShops[i] \notin Range(PendingShops)

\* a finished call with a shop whose ID is in both sets, and a removed shop of
\* level high
C9_Witness ==
  /\ FilterDone
  /\ \E i \in 1..Len(fShops) :
       PlaceIdOf(fShops[i]) \in fRemoved \cap fApproved
  /\ \E i \in 1..Len(fShops) :
       PlaceIdOf(fShops[i]) \in fRemoved /\ LevelOf(fShops[i]) = "high"

\* C10: a handled shop whose place ID is approved and not removed is in
\* included, and calculateConfidence was not called with it.
C10_ApprovedBypassesScoring ==
  \A i \in 1..fPos :
    PlaceIdOf(fShops[i]) \in fApproved \ fRemoved =>
      /\ fShops[i] \in Range(included)
      /\ fShops[i] \notin Range(scored)

\* a finished call that auto-included a shop of level exclude and one of level
\* review
C10_Witness ==
  /\ FilterDone
  /\ \E i \in 1..Len(fShops) :
       /\ PlaceIdOf(fShops[i]) \in fApproved \ fRemoved
       /\ LevelOf(fShops[i]) = "exclude"
       /\ fShops[i] \in Range(included)
  /\ \E i \in 1..Len(fShops) :
       /\ PlaceIdOf(fShops[i]) \in fApproved \ fRemoved
       /\ LevelOf(fShops[i]) = "review"
       /\ fShops[i] \in Range(included)

\* ------------------------------------------------------------------------
\* calculateConfidence and classifyShop on one record
\* ------------------------------------------------------------------------
\* the names, category tags, websites and source flags the record is built of
ClassNames ==
  { Null, Str("Zumiez"), Str("Vans Outlet"), Str("Stadium Skate Shop"),
    Str("Pure Hockey"), Str("Ice Skate World"), Str("Main Street Sports"),
    Str("Local Boardz") }

ClassTypes ==
  { Undef, List(<< >>), List(<< "store" >>), List(<< "skateboard_shop" >>),
    List(<< "skateboard_park" >>), List(<< "skateboard_park", "retail" >>),
    List(<< "stadium", "store" >>), List(<< "arena" >>),
    List(<< "sporting_goods_store", "department_store" >>) }

ClassWebsites ==
  { Null, Str("https://www.zumiez.com/stores"), Str("https://shop.skatewarehouse.com"),
    Str("https://WWW.ActiveRideStore.com"), Str("https://upriseskateshop.com"),
    Str("https://iceskateworld.com"), Str("https://mainstreet.example.com"),
    Str("not a url") }

\* isIndependent and chainName as a source sets them
ClassFlags ==
  { << Undef, Undef >>, << Bool(TRUE), Undef >>, << Bool(FALSE), Undef >>,
    << Undef, Str("Custom Chain") >> }

ClassRecord(name, types, website, flags) ==
  Shop(Str("x1"), name, Null, Deg(34, 0), Deg(-118, 0), website, Null,
       Str("google-places"), Str("p1"), types, flags[1], flags[2])

ClassInit ==
  /\ \E name \in ClassNames, types \in ClassTypes, website \in ClassWebsites,
        flags \in ClassFlags :
       cShop = ClassRecord(name, types, website, flags)
  /\ cConfidence = << >>
  /\ cClassified = << >>
  /\ DedupIdle
  /\ FilterIdle
  /\ PipeIdle
  /\ NormIdle

\* calculateConfidence(shop) is called
ScoreShop ==
  /\ cConfidence = << >>
  /\ cConfidence' = << calculateConfidence(cShop) >>
  /\ UNCHANGED << cShop, cClassified, dedupVars, filterVars, pipeVars, normVars >>

\* classifyShop(shop) is called
LabelShop ==
  /\ cClassified = << >>
  /\ cClassified' = << classifyShop(cShop) >>
  /\ UNCHANGED << cShop, cConfidence, dedupVars, filterVars, pipeVars, normVars >>

ClassNext == ScoreShop \/ LabelShop

SpecClassify == ClassInit /\ [][ClassNext]_vars

\* ------------------------------------------------------------------------
\* Claims about calculateConfidence and classifyShop (checked under
\* SpecClassify)
\* ------------------------------------------------------------------------
\* the lower-cased name and the host of the website of a record; the host is
\* "" when there is no website or it is no URL
LowerName(shop) == toLowerCase(IF Truthy(shop.name) THEN shop.name.v ELSE "")
HostOfURL(u) == IF u.ok THEN BareHost(u) ELSE ""
HostOf(shop) == IF Truthy(shop.website) THEN HostOfURL(ParseURL(shop.website.v)) ELSE ""

HasExcludedType(shop) ==
  \E k \in 1..Len(EXCLUDED_TYPES) : HasType(TypesOf(shop), EXCLUDED_TYPES[k])
RetailWithSkateName(shop) ==
  HasStoreType(TypesOf(shop)) /\ HasSkatePattern(LowerName(shop))
RetailWithSkateHost(shop) ==
  HasStoreType(TypesOf(shop)) /\ HasSkatePattern(HostOf(shop))

\* the condition of rule k of the decision list
RuleApplies(k, shop) ==
  CASE k = 1 -> matchKnownChain(shop) # Null
    [] k = 2 -> HasType(TypesOf(shop), "skateboard_shop")
    [] k = 3 -> HasType(TypesOf(shop), "skateboard_park") /\ HasStoreType(TypesOf(shop))
    [] k = 4 -> RetailWithSkateName(shop)
    [] k = 5 -> RetailWithSkateHost(shop)
    [] k = 6 -> HasExcludedType(shop)
    [] k = 7 -> HasSkipPattern(LowerName(shop))
    [] k = 8 -> HasStoreType(TypesOf(shop))
    [] k = 9 -> ~HasStoreType(TypesOf(shop))

\* the level rule k gives
RuleLevel(k, shop) ==
  CASE k \in { 1, 2 } -> "high"
    [] k = 3 -> "very_high"
    [] k = 4 -> IF HasSkipPattern(LowerName(shop)) THEN "exclude" ELSE "good"
    [] k = 5 -> IF HasSkipPattern(HostOf(shop)) THEN "exclude" ELSE "good"
    [] k = 8 -> "review"
    [] OTHER -> "exclude"

\* the lowest-numbered rule whose condition the record satisfies
FirstRule(shop) == FirstIndex({ k \in 1..9 : RuleApplies(k, shop) })

\* C11: for every record, calculateConfidence returns the level of the
\* lowest-numbered of the nine rules of the decision list whose condition the
\* record satisfies.
C11_FirstRuleWins ==
  cConfidence # << >> =>
    /\ FirstRule(cShop) \in 1..9
    /\ cConfidence[1].level = RuleLevel(FirstRule(cShop), cShop)

\* a record that satisfies an earlier and a later rule with different levels
\* (retail type with a skate name, and an excluded type) has been scored
C11_Witness ==
  /\ cConfidence # << >>
  /\ FirstRule(cShop) = 4
  /\ RuleApplies(6, cShop)
  /\ cConfidence[1].level = "good"

\* the precondition of C12: an excluded type, no known chain, neither the
\* skateboard_shop nor the skateboard_park type
ExcludedTypeCase ==
  /\ cConfidence # << >>
  /\ HasExcludedType(cShop)
  /\ matchKnownChain(cShop) = Null
  /\ ~HasType(TypesOf(cShop), "skateboard_shop")
  /\ ~HasType(TypesOf(cShop), "skateboard_park")

\* C12 as stated: a record with an excluded type that matches no known chain
\* and has neither the skateboard_shop nor the skateboard_park type gets level
\* exclude with reason 'Has excluded type'.
C12_ExcludedTypeExcludes ==
  ExcludedTypeCase => cConfidence[1] = Confidence("exclude", "Has excluded type")

\* C12 as amended: the same, for a record that does not combine a retail type
\* with a skate-related name or a skate-related website host.
C12_ExcludedTypeAfterSkateRules ==
  (ExcludedTypeCase /\ ~RetailWithSkateName(cShop) /\ ~RetailWithSkateHost(cShop))
    => cConfidence[1] = Confidence("exclude", "Has excluded type")

\* a record with an excluded type and a name on the skip list, without a skate
\* name or host, has been scored
C12_Witness ==
  /\ ExcludedTypeCase
  /\ ~RetailWithSkateName(cShop) /\ ~RetailWithSkateHost(cShop)
  /\ HasSkipPattern(LowerName(cShop))
  /\ HasStoreType(TypesOf(cShop))

\* the record has no chain flag and no chain name of its own
Unflagged(shop) == shop.isIndependent # Bool(FALSE) /\ ~Truthy(shop.chainName)

\* C13: for a record without an explicit chain flag or chain name, whenever
\* classifyShop matches a known chain, by name or by website, the resulting
\* chainName is the canonical display name of the chain.
C13_CanonicalChainName ==
  (cClassified # << >> /\ Unflagged(cShop) /\ matchKnownChain(cShop) # Null) =>
    /\ cClassified[1].isIndependent = Bool(FALSE)
    /\ IsStr(cClassified[1].chainName)
    /\ cClassified[1].chainName.v \in Range(ChainPatternNames)

\* a record matched by its name alone has been classified
C13_NameCase ==
  /\ cClassified # << >> /\ Unflagged(cShop)
  /\ matchChainByName(cShop.name) # Null

\* a scored record with a name on the skip list that matches no known chain
\* and has neither the skateboard_shop nor the skateboard_park type
SkipNameCase ==
  /\ cConfidence # << >>
  /\ HasSkipPattern(LowerName(cShop))
  /\ matchKnownChain(cShop) = Null
  /\ ~HasType(TypesOf(cShop), "skateboard_shop")
  /\ ~HasType(TypesOf(cShop), "skateboard_park")

\* a retail type together with a website host that has a skate-related pattern
\* and no skip-list phrase
RetailWithCleanSkateHost(shop) ==
  RetailWithSkateHost(shop) /\ ~HasSkipPattern(HostOf(shop))

NormNames ==
  { Str("  Bob's   Boards "), Str("Tom &amp; Co"), Null, Undef, NaN, Num(42) }

NormPhones ==
  { Str("555-123-4567"), Str("+1 (555) 123-4567"), Str("call us"), Null, NaN,
    Num(5551234) }

NormAddresses == { Str("12 Main St , Boise"), Null, Undef, Num(12) }

NormCoordinates == { Deg(43, 6000004), Deg(-116, -2000005), Str("invalid"), Null, NaN }

NormWebsites ==
  { Null, Undef, NaN, Num(42), Str(""), Str("example.com"), Str("www.example.com"),
    Str("https://example.com"), Str("http://example.com"), Str("not a url"),
    Str("https://example.com/"), Str("  HTTP://Shop.Example.COM/  "),
    Str("https://example.com:443/boards"), Str("http://example.com:8080"),
    Str("https://example.com/?ref=1"), Str("https://"), Str("a.b"),
    Str("https://localhost"), Str("ftp://example.com") }

NormRecord(name, phone, address, coordinate, website) ==
  Shop(Str("x1"), name, address, coordinate, coordinate, website, phone,
       Str("manual"), Undef, Undef, Undef, Undef)

\* how a call ended: it returned a value, or a TypeError left it
Returned(value) == [ threw |-> FALSE, value |-> value ]
Threw == [ threw |-> TRUE, value |-> << >> ]

\* url.trim() of line 60 is called on every truthy url
normalizeWebsiteCall(url) ==
  IF Truthy(url) /\ ~IsStr(url) THEN Threw ELSE Returned(normalizeWebsite(url))

\* shops.map(normalizeShop) of normalizeShops
normalizeShopsCall(shops) ==
  IF \E i \in 1..Len(shops) : NormalizeThrows(shops[i]) THEN Threw
  ELSE Returned(normalizeShops(shops))

NormInit ==
  /\ \E name \in NormNames, phone \in NormPhones, address \in NormAddresses,
        coordinate \in NormCoordinates, website \in NormWebsites :
       nShop = NormRecord(name, phone, address, coordinate, website)
  /\ nShops = << >>
  /\ nWebsite = << >>
  /\ nAgain = << >>
  /\ DedupIdle
  /\ FilterIdle
  /\ PipeIdle
  /\ ClassIdle

\* normalizeShops([shop]) is called
NormalizeShops ==
  /\ nShops = << >>
  /\ nShops' = << normalizeShopsCall(<< nShop >>) >>
  /\ UNCHANGED << nShop, nWebsite, nAgain, dedupVars, filterVars, pipeVars, classVars >>

\* normalizeWebsite(shop.website) is called
NormalizeWebsite ==
  /\ nWebsite = << >>
  /\ nWebsite' = << normalizeWebsiteCall(nShop.website) >>
  /\ UNCHANGED << nShop, nShops, nAgain, dedupVars, filterVars, pipeVars, classVars >>

\* normalizeWebsite is called on the address it returned
NormalizeWebsiteAgain ==
  /\ nWebsite # << >> /\ nAgain = << >>
  /\ ~nWebsite[1].threw
  /\ nWebsite[1].value # Null
  /\ nAgain' = << normalizeWebsiteCall(nWebsite[1].value) >>
  /\ UNCHANGED << nShop, nShops, nWebsite, dedupVars, filterVars, pipeVars, classVars >>

NormNext == NormalizeShops \/ NormalizeWebsite \/ NormalizeWebsiteAgain

SpecNormalize == NormInit /\ [][NormNext]_vars

\* ------------------------------------------------------------------------
\* Claims about the normalizer (checked under SpecNormalize)
\* ------------------------------------------------------------------------
\* C21: normalizeWebsite is idempotent: when normalizeWebsite(x) is not null,
\* normalizeWebsite(normalizeWebsite(x)) returns the same address.
C21_WebsiteIdempotent ==
  nAgain # << >> => nAgain[1] = nWebsite[1]

\* a second call has been made on an address the first call had to rewrite
C21_Witness ==
  /\ nAgain # << >>
  /\ nWebsite[1].value # nShop.website
  /\ nAgain[1] = nWebsite[1]

\* a field of the result holds a well-formed value, null or the sentinel
NormalField(x) == x.t \in {"str", "num", "null"}

\* C22: whatever kind of value the name, phone, address, website, lat and lng
\* fields hold, normalizeShops does not throw, and each of these fields of the
\* returned record is a string, a number or null.
C22_MalformedFieldsNeverThrow ==
  nShops # << >> =>
    /\ ~nShops[1].threw
    /\ \A f \in {"name", "phone", "address", "website", "lat", "lng"} :
         NormalField(nShops[1].value[1][f])

\* ------------------------------------------------------------------------
\* The collect run (scripts/collect-shops.js main)
\* ------------------------------------------------------------------------
\* the order name.localeCompare gives the characters of the model: blank,
\* punctuation, digits, letters; case decides only between otherwise equal names
CollationChars == " _-,.'\"&0123456789abcdefghijklmnopqrstuvwxyz"

RankOf(c) ==
  FirstIndex({ k \in 1..Len(CollationChars) : Ch(CollationChars, k) = LowerChar(c) })

\* the order of two ranks, rest when they are equal
CompareRanks(ra, rb, rest) == IF ra < rb THEN -1 ELSE IF ra > rb THEN 1 ELSE rest

RECURSIVE PrimaryCompare(_, _, _)
\* -1, 0 or 1 as a sorts before, with or after b, case ignored, from position i
PrimaryCompare(a, b, i) ==
  IF i > Len(a) /\ i > Len(b) THEN 0
  ELSE IF i > Len(a) THEN -1
  ELSE IF i > Len(b) THEN 1
  ELSE CompareRanks(RankOf(Ch(a, i)), RankOf(Ch(b, i)), PrimaryCompare(a, b, i + 1))

RECURSIVE CaseCompare(_, _, _)
\* between names equal up to case: lower case first at the first difference
CaseCompare(a, b, i) ==
  IF i > Len(a) THEN 0
  ELSE IF Ch(a, i) = Ch(b, i) THEN CaseCompare(a, b, i + 1)
  ELSE IF Ch(a, i) \in LowerSet THEN -1 ELSE 1

\* a.localeCompare(b)
localeCompare(a, b) == CompareRanks(PrimaryCompare(a, b, 1), 0, CaseCompare(a, b, 1))

RECURSIVE InsertByName(_, _)
\* x placed behind every element that does not sort after it (the sort is stable)
InsertByName(sorted, x) ==
  IF sorted = << >> THEN << x >>
  ELSE IF localeCompare(Head(sorted).name.v, x.name.v) <= 0
       THEN << Head(sorted) >> \o InsertByName(Tail(sorted), x)
       ELSE << x >> \o sorted

RECURSIVE SortByName(_)
\* output.sort((a, b) => a.name.localeCompare(b.name))
SortByName(shops) ==
  IF shops = << >> THEN << >>
  ELSE InsertByName(SortByName(SubSeq(shops, 1, Len(shops) - 1)), shops[Len(shops)])

\* shops.filter(test).length, as a JavaScript number
CountTruthy(shops, f) == Num(Cardinality({ i \in 1..Len(shops) : Truthy(Field(shops[i], f)) }))
CountFalsy(shops, f) == Num(Cardinality({ i \in 1..Len(shops) : ~Truthy(Field(shops[i], f)) }))

\* assignNumericIds(shops)
assignNumericIds(shops) == [i \in 1..Len(shops) |-> [shops[i] EXCEPT !.id = Num(i)]]

\* the object writeOutput serialises into shops.json
\* lines 301-312 of writeOutput: the data object of the sorted output
DataOf(output) ==
  [ shops |-> output,
    stats |-> [ total |-> Num(Len(output)),
                independent |-> CountTruthy(output, "isIndependent"),
                chain |-> CountFalsy(output, "isIndependent"),
                withWebsite |-> CountTruthy(output, "website"),
                withPhone |-> CountTruthy(output, "phone"),
                withPhoto |-> Num(Cardinality({ i \in 1..Len(output) :
                                    \/ Truthy(Field(output[i], "photoName"))
                                    \/ Truthy(Field(output[i], "photo")) })) ] ]

\* mutant: the ids are assigned after the sort
OutputDataSortedFirst(shops) ==
  DataOf(prepareForOutput(assignNumericIds(SortByName(shops))))

OutputData(shops) == DataOf(SortByName(prepareForOutput(assignNumericIds(shops))))

RECURSIVE RouteAll(_, _, _)
\* the branch each shop of the list takes, in order
RouteAll(shops, removedIds, approvedIds) ==
  IF shops = << >> THEN << >>
  ELSE << FilterOutcome(Head(shops), removedIds, approvedIds) >>
         \o RouteAll(Tail(shops), removedIds, approvedIds)

\* applyConfidenceFilter(shops, decisions) as a whole
\* pendingReview.push({ ...shop, confidenceReason }) for each shop of the list
PendingEntries(pend) == [i \in 1..Len(pend) |-> PendingEntry(pend[i])]

\* the two lists applyConfidenceFilter returns, given the branch of each shop
FilteredBy(shops, outcome) ==
  [ outcome |-> outcome,
    included |-> Select(shops, { i \in 1..Len(shops) :
                                   outcome[i] \in { "approved", "included" } }),
    pendingReview |->
      PendingEntries(Select(shops, { i \in 1..Len(shops) : outcome[i] = "review" })) ]

\* applyConfidenceFilter(shops, decisions) as a whole
applyConfidenceFilter(shops, removedIds, approvedIds) ==
  FilteredBy(shops, RouteAll(shops, removedIds, approvedIds))

\* mutant: the run goes on when no shop passed the confidence filter
CollectResultUnguarded(p, filtered) ==
  [ exit |-> IF p.rawShops = << >> THEN "No shops collected from any source!"
             ELSE IF p.threw THEN "Fatal error"
             ELSE IF p.processed = << >> THEN "No shops remained after processing!"
             ELSE "",
    supplied |-> p.rawShops,
    routed |-> [i \in 1..Len(p.processed) |->
                  [ from |-> p.classified[i], shop |-> p.processed[i],
                    outcome |-> filtered.outcome[i] ]],
    included |-> filtered.included,
    pendingReview |-> filtered.pendingReview ]

\* what a run of main ends in, given what processShops and applyConfidenceFilter
\* returned; exit names the process.exit(1) of the run, "" when there is none
CollectResult(p, filtered) ==
  [ exit |-> IF p.rawShops = << >> THEN "No shops collected from any source!"
             ELSE IF p.threw THEN "Fatal error"
             ELSE IF p.processed = << >> THEN "No shops remained after processing!"
             ELSE IF filtered.included = << >> THEN "No shops passed confidence filter!"
             ELSE "",
    supplied |-> p.rawShops,
    routed |-> [i \in 1..Len(p.processed) |->
                  [ from |-> p.classified[i], shop |-> p.processed[i],
                    outcome |-> filtered.outcome[i] ]],
    included |-> filtered.included,
    pendingReview |-> filtered.pendingReview ]

\* what one run of main computes from the two decision files and from what
\* processShops made of the shops the sources returned
Collect(p) ==
  CollectResult(p, applyConfidenceFilter(p.processed, Range(removedFile),
                                         Range(approvedFile)))

\* the entries a pending-review.json found on disk may hold
PendingCatalogue ==
  << [ id |-> Str("google-p2"), name |-> Str("Main Street Sports"),
       address |-> Str("22 Main St., Reno, NV"), lat |-> Deg(39, 5000000),
       lng |-> Deg(-119, -8000000), website |-> Null, phone |-> Null,
       isIndependent |-> Bool(TRUE), googlePlaceId |-> Str("p2"),
       types |-> List(<< "sporting_goods_store" >>),
       confidenceReason |-> Str("Store type but no clear skateboard indicator") ],
     [ id |-> Str("google-p4"), name |-> Str("Corner Sports"),
       address |-> Str("3 Elm St., Provo, UT"), lat |-> Deg(40, 2000000),
       lng |-> Deg(-111, -6000000), website |-> Str("https://cornersports.com"),
       phone |-> Str("(801) 555-0144"),
       isIndependent |-> Bool(TRUE), googlePlaceId |-> Str("p4"),
       types |-> List(<< "store" >>),
       confidenceReason |-> Str("Store type but no clear skateboard indicator") ],
     [ id |-> Str("google-p5"), name |-> Str("Plaza Sporting Goods"),
       address |-> Null, lat |-> Deg(33, 4000000),
       lng |-> Deg(-112, 0), website |-> Null, phone |-> Null,
       isIndependent |-> Bool(TRUE), googlePlaceId |-> Str("p5"),
       types |-> List(<< "sporting_goods_store", "store" >>),
       confidenceReason |-> Str("Store type but no clear skateboard indicator") ] >>

\* longest pending-review.json found on disk
MaxPending == 2

\* the lists over S of at most n elements, none repeated
DistinctSeqsUpTo(S, n) ==
  { q \in SeqsUpTo(S, n) : \A i, j \in 1..Len(q) : q[i] = q[j] => i = j }

\* the shops.json an earlier collect run left on disk: what main writes when
\* the sources supply the first shop of the catalogue
EarlierOutput ==
  OutputData(applyConfidenceFilter(processShops(<< GoogleCatalogue[1] >>, << >>),
                                   {}, {}).included)

\* shops.json as a session or a run may find it: absent, or left by an earlier run
ShopsFilesOnDisk == { << >>, << EarlierOutput >> }

Init ==
  /\ removedFile = << >>
  /\ approvedFile = << >>
  /\ pendingFile \in DistinctSeqsUpTo(Range(PendingCatalogue), MaxPending)
  /\ shopsFile \in ShopsFilesOnDisk
  /\ run = NoRun
  /\ session = NoSession
  /\ decided = [ approved |-> {}, denied |-> {}, ended |-> "" ]
  /\ DedupIdle
  /\ FilterIdle
  /\ ClassIdle
  /\ NormIdle

\* what a run met at its sources
SourcesOf(in) ==
  << [ raw |-> in.raw, transform |-> in.transform, google |-> in.google,
       load |-> in.load, manual |-> in.manual ] >>

\* the run ends in the process.exit(1) of collectFromAllSources (lines
\* 111-118): there is no readable raw data file
CollectAborts ==
  /\ ~session.active
  /\ \E in \in CollectInputs :
       /\ in.raw = "missing"
       /\ run' = [ NoRun EXCEPT !.status = "failed",
                                !.exit = "No cached raw data found",
                                !.sources = SourcesOf(in) ]
  /\ UNCHANGED << removedFile, approvedFile, pendingFile, shopsFile, session, decided,
                  dedupVars, filterVars, classVars, normVars >>

\* the run ends in process.exit(1) (lines 346-365 and 374) before anything
\* is written
CollectFails ==
  /\ ~session.active
  /\ \E in \in CollectInputs :
       \E c \in { Collect(Processed[in]) } :
          /\ in.raw = "ok"
          /\ c.exit # ""
          /\ run' = [ NoRun EXCEPT !.status = "failed", !.exit = c.exit,
                                   !.sources = SourcesOf(in),
                                   !.supplied = c.supplied, !.routed = c.routed ]
  /\ UNCHANGED << removedFile, approvedFile, pendingFile, shopsFile, session, decided,
                  dedupVars, filterVars, classVars, normVars >>

\* the run reaches writeOutput and writePendingReview (lines 368-369)
CollectSucceeds ==
  /\ ~session.active
  /\ \E in \in CollectInputs :
       \E c \in { Collect(Processed[in]) } :
          /\ in.raw = "ok"
          /\ c.exit = ""
          /\ \E data \in { OutputData(c.included) } :
               /\ shopsFile' = << data >>
               /\ run' = [ status |-> "ok", exit |-> "", sources |-> SourcesOf(in),
                           supplied |-> c.supplied, routed |-> c.routed,
                           written |-> data.shops,
                           wroteShops |-> TRUE, wrotePending |-> TRUE ]
          /\ pendingFile' = c.pendingReview
  /\ UNCHANGED << removedFile, approvedFile, session, decided, dedupVars, filterVars, classVars, normVars >>

\* ------------------------------------------------------------------------
\* The review session (scripts/review-shops.js main)
\* ------------------------------------------------------------------------
\* loadShopsFile()
loadShopsFile ==
  IF shopsFile = << >>
  THEN [ shops |-> << >>,
         stats |-> [ total |-> Undef, independent |-> Undef, chain |-> Undef,
                     withWebsite |-> Undef, withPhone |-> Undef, withPhoto |-> Undef ] ]
  ELSE shopsFile[1]

\* Math.max(a, b)
Max(a, b) == IF a > b THEN a ELSE b

RECURSIVE MaxId(_)
\* shopsData.shops.reduce((max, s) => Math.max(max, s.id || 0), 0)
MaxId(shops) ==
  IF shops = << >> THEN 0
  ELSE Max(IF Truthy(Head(shops).id) THEN Head(shops).id.v ELSE 0, MaxId(Tail(shops)))

\* a key whose value is null or undefined is deleted
Deleted(x) == IF x = Null THEN Undef ELSE x

\* the record addToShops appends
NewShop(shop, shopsData) ==
  [ id |-> Num(MaxId(shopsData.shops) + 1),
    name |-> Deleted(Field(shop, "name")),
    address |-> Deleted(Field(shop, "address")),
    lat |-> Deleted(Field(shop, "lat")),
    lng |-> Deleted(Field(shop, "lng")),
    website |-> Deleted(Or(Field(shop, "website"), Null)),
    phone |-> Deleted(Or(Field(shop, "phone"), Null)),
    isIndependent |-> Deleted(IF Field(shop, "isIndependent") # Undef
                              THEN shop.isIndependent ELSE Bool(TRUE)) ]

\* addToShops(shop, shopsData)
\* lines 111-114 of addToShops: the three statistics it updates
WithStats(shopsData, shops) ==
  [ shops |-> shops,
    stats |-> [ shopsData.stats EXCEPT
                  !.total = Num(Len(shops)),
                  !.independent = CountTruthy(shops, "isIndependent"),
                  !.chain = CountFalsy(shops, "isIndependent") ] ]

\* addToShops, were the appended record to keep the id of the pending entry
addToShopsKeepingId(shop, shopsData) ==
  WithStats(shopsData,
            Append(shopsData.shops, [ NewShop(shop, shopsData) EXCEPT !.id = shop.id ]))

addToShops(shop, shopsData) ==
  WithStats(shopsData, Append(shopsData.shops, NewShop(shop, shopsData)))

\* the list with id appended when the shop has a place ID the list lacks
PushPlaceId(ids, shop) ==
  IF Truthy(Field(shop, "googlePlaceId")) /\ shop.googlePlaceId \notin Range(ids)
  THEN Append(ids, shop.googlePlaceId) ELSE ids

\* lines 127-152: the four files are loaded and there is something to review
ReviewStart ==
  /\ ~session.active
  /\ pendingFile # << >>
  /\ session' = [ active |-> TRUE, pending |-> pendingFile, i |-> 0,
                  approved |-> approvedFile, removed |-> removedFile,
                  remaining |-> << >>, shopsData |-> loadShopsFile,
                  approvedShops |-> << >>, deniedShops |-> << >>,
                  answers |-> << >> ]
  /\ UNCHANGED << removedFile, approvedFile, pendingFile, shopsFile, run, decided,
                  dedupVars, filterVars, classVars, normVars >>

\* the shop on display
Current == session.pending[session.i + 1]
Prompting == session.active /\ session.i < Len(session.pending)

\* lines 162-173
ReviewApprove ==
  /\ Prompting
  /\ session' = [ session EXCEPT
                    !.approved = PushPlaceId(session.approved, Current),
                    !.shopsData = addToShops(Current, session.shopsData),
                    !.approvedShops = Append(session.approvedShops, Current),
                    !.answers = Append(session.answers, "approve"),
                    !.i = session.i + 1 ]
  /\ UNCHANGED << removedFile, approvedFile, pendingFile, shopsFile, run, decided,
                  dedupVars, filterVars, classVars, normVars >>

\* lines 175-185
ReviewDeny ==
  /\ Prompting
  /\ session' = [ session EXCEPT
                    !.removed = PushPlaceId(session.removed, Current),
                    !.deniedShops = Append(session.deniedShops, Current),
                    !.answers = Append(session.answers, "deny"),
                    !.i = session.i + 1 ]
  /\ UNCHANGED << removedFile, approvedFile, pendingFile, shopsFile, run, decided,
                  dedupVars, filterVars, classVars, normVars >>

\* lines 187-194
ReviewSkip ==
  /\ Prompting
  /\ session' = [ session EXCEPT
                    !.remaining = Append(session.remaining, Current),
                    !.answers = Append(session.answers, "skip"),
                    !.i = session.i + 1 ]
  /\ UNCHANGED << removedFile, approvedFile, pendingFile, shopsFile, run, decided,
                  dedupVars, filterVars, classVars, normVars >>

\* mutant: Quit leaves the loop without putting the shops not yet handled back
ReviewQuitDropsRest ==
  /\ Prompting
  /\ session' = [ session EXCEPT
                    !.answers = Append(session.answers, "quit"),
                    !.i = Len(session.pending) ]
  /\ UNCHANGED << removedFile, approvedFile, pendingFile, shopsFile, run, decided,
                  dedupVars, filterVars, classVars, normVars >>

\* lines 196-203
ReviewQuit ==
  /\ Prompting
  /\ session' = [ session EXCEPT
                    !.remaining = session.remaining
                                    \o SubSeq(session.pending, session.i + 1,
                                              Len(session.pending)),
                    !.answers = Append(session.answers, "quit"),
                    !.i = Len(session.pending) ]
  /\ UNCHANGED << removedFile, approvedFile, pendingFile, shopsFile, run, decided,
                  dedupVars, filterVars, classVars, normVars >>

\* how a loop with these answers ended
LoopEnd(answers) ==
  IF \A k \in 1..Len(answers) : answers[k] # "quit" THEN "handled"
  ELSE IF \A k \in 1..Len(answers) : answers[k] \in { "skip", "quit" } THEN "quit"
  ELSE "quit after a decision"

\* lines 211-217: the loop is over and the four files are saved
ReviewSave ==
  /\ session.active
  /\ session.i = Len(session.pending)
  /\ approvedFile' = session.approved
  /\ removedFile' = session.removed
  /\ pendingFile' = session.remaining
  /\ shopsFile' = << session.shopsData >>
  /\ decided' = [ approved |-> decided.approved \cup Range(session.approvedShops),
                  denied |-> decided.denied \cup Range(session.deniedShops),
                  ended |-> LoopEnd(session.answers) ]
  /\ session' = NoSession
  /\ UNCHANGED << run, dedupVars, filterVars, classVars, normVars >>

Next ==
  \/ CollectAborts
  \/ CollectFails
  \/ CollectSucceeds
  \/ ReviewStart
  \/ ReviewApprove
  \/ ReviewDeny
  \/ ReviewSkip
  \/ ReviewQuit
  \/ ReviewSave

Spec == Init /\ [][Next]_vars

\* ------------------------------------------------------------------------
\* Claims about collect runs and review sessions (checked under Spec)
\* ------------------------------------------------------------------------
\* the shops array a successful collect run wrote
WrittenShops == IF run.status = "ok" THEN shopsFile[1].shops ELSE << >>

\* C6: in the shops array written by a collect run, a record with
\* isIndependent false has a non-empty string chainName, and a record that has
\* a chainName has isIndependent false.
C6_ChainFlagAndName ==
  \A k \in 1..Len(WrittenShops) :
    LET shop == WrittenShops[k] IN
    /\ shop.isIndependent = Bool(FALSE) =>
         IsStr(Field(shop, "chainName")) /\ Field(shop, "chainName") # Str("")
    /\ Field(shop, "chainName") # Undef => shop.isIndependent = Bool(FALSE)

\* a collect run wrote a chain shop
C6_Witness ==
  \E k \in 1..Len(WrittenShops) : WrittenShops[k].isIndependent = Bool(FALSE)

\* the positions of the last run's routing whose record came from place ID id
RoutedAs(id) == { k \in 1..Len(run.routed) : run.routed[k].from.googlePlaceId = id }
SuppliedIds == { run.supplied[k].googlePlaceId : k \in 1..Len(run.supplied) }
PlaceIds(shops) == { shop.googlePlaceId : shop \in { x \in shops : Truthy(x.googlePlaceId) } }

\* C7: after a collect run that completed, no shop denied in an earlier saved
\* session is in its included or pending-review list, and every shop approved
\* in an earlier saved session that the sources supplied is in its included
\* list.
C7_DecisionsPersist ==
  run.status = "ok" =>
    /\ \A id \in PlaceIds(decided.denied) :
         \A k \in RoutedAs(id) : run.routed[k].outcome \in { "removed", "excluded" }
    /\ \A id \in PlaceIds(decided.approved) \cap SuppliedIds :
         \E k \in RoutedAs(id) : run.routed[k].outcome \in { "approved", "included" }

\* a collect run completed after a shop it was supplied with had been denied
C7_DeniedCase ==
  /\ run.status = "ok"
  /\ PlaceIds(decided.denied) \cap SuppliedIds # {}

\* C25: every record that reaches applyConfidenceFilter in a collect run still
\* carries the googlePlaceId and the types it had after deduplication and
\* classification.
C25_PlaceIdAndTypesReachFilter ==
  \A k \in 1..Len(run.routed) :
    /\ Field(run.routed[k].shop, "googlePlaceId") = run.routed[k].from.googlePlaceId
    /\ Field(run.routed[k].shop, "types") = run.routed[k].from.types

\* the records the last run's coordinate validation let through
Validated == [k \in 1..Len(run.routed) |-> run.routed[k].from]

\* C14: every record written to the final output of a collect run has a
\* non-null name, non-null numeric lat and lng, and a non-null isIndependent.
C14_OutputFieldsPresent ==
  \A k \in 1..Len(run.written) :
    /\ run.written[k].name \notin { Null, Undef }
    /\ IsNum(run.written[k].lat)
    /\ IsNum(run.written[k].lng)
    /\ run.written[k].isIndependent \notin { Null, Undef }

\* the coordinates of a record, when it has them, are inside USA_BOUNDS
InsideWhenPresent(shop) ==
  (shop.lat # Null /\ shop.lng # Null) => isWithinUSA(shop.lat, shop.lng)

\* C15: every record that survives coordinate validation in a collect run,
\* also one whose coordinates forward geocoding filled in, has its coordinates
\* inside the USA bounding box, and so has every record of the final output.
C15_CoordinatesInsideBounds ==
  /\ \A k \in 1..Len(Validated) : InsideWhenPresent(Validated[k])
  /\ \A k \in 1..Len(run.written) : InsideWhenPresent(run.written[k])

IncludedOfRun ==
  Select(run.routed, { k \in 1..Len(run.routed) :
                         run.routed[k].outcome \in { "approved", "included" } })

NonePassed(r) ==
  \A k \in 1..Len(r.routed) : r.routed[k].outcome \notin { "approved", "included" }

\* C17: a collect run that collected no record, or in which no record
\* survived processing, or in which no record passed the confidence filter,
\* exits with a non-zero status and leaves shops.json and pending-review.json
\* as they were.
C17_FatalWritesNothing ==
  [][ (run' # run /\ (run'.supplied = << >> \/ run'.routed = << >> \/ NonePassed(run')))
        => /\ run'.status = "failed" /\ run'.exit # ""
           /\ ~run'.wroteShops /\ ~run'.wrotePending
           /\ shopsFile' = shopsFile /\ pendingFile' = pendingFile ]_vars

\* a run whose records all failed the confidence filter ended, after an
\* earlier run had written shops.json
C17_Witness ==
  /\ run.status = "failed" /\ run.routed # << >> /\ NonePassed(run)
  /\ shopsFile # << >>

\* the exits that end a run before or right after collection
CollectionExits == { "No cached raw data found", "No shops collected from any source!" }

\* C18: a source that fails or is unavailable counts as zero records and the
\* run goes on with the records of the other source; a run stops at collection
\* only when no source has a record.
C18_SourceFailureTolerated ==
  run.status # "none" =>
    IF run.exit \in CollectionExits
    THEN run.sources[1].google = << >> /\ run.sources[1].manual = << >>
    ELSE run.supplied = run.sources[1].google \o run.sources[1].manual

\* the manual additions of the last run that have numeric coordinates inside
\* the USA bounds and duplicate no other collected record (a manual addition
\* has no place ID, so none is in the removed set)
EligibleManual ==
  { i \in 1..Len(run.supplied) :
      /\ run.supplied[i].source = Str("manual")
      /\ IsNum(run.supplied[i].lat) /\ IsNum(run.supplied[i].lng)
      /\ isWithinUSA(run.supplied[i].lat, run.supplied[i].lng)
      /\ \A j \in 1..Len(run.supplied) :
           j # i => ~areDuplicates(precomputeNormalized(run.supplied[i]),
                                   precomputeNormalized(run.supplied[j])) }

\* C19: after a collect run, a manual addition that has numeric coordinates
\* inside the USA bounds, duplicates no other collected record and is not in
\* the removed set is in shops.json.
C19_ManualAdditionWritten ==
  run.status = "ok" =>
    \A i \in EligibleManual :
      \E k \in 1..Len(run.written) :
        run.written[k].name = normalizeName(run.supplied[i].name)

\* the positions of the pending list of the running session that got answer a
Answered(a) == { k \in 1..Len(session.answers) : session.answers[k] = a }

\* the positions the loop never reached: that of the shop on display at Quit
\* and those behind it
Unreached ==
  IF Answered("quit") = { } THEN { }
  ELSE Len(session.answers)..Len(session.pending)

\* the records a session appended to the shops array old
AppendedNames(old, new) == [k \in 1..(Len(new) - Len(old)) |-> new[Len(old) + k].name]

\* the outcomes of the shop at position k of the pending list, as the files
\* saved at the end of the session show them
SavedApproved(k) ==
  /\ session.pending[k].googlePlaceId \in Range(approvedFile')
  /\ session.pending[k].name \in Range(AppendedNames(loadShopsFile.shops, shopsFile'[1].shops))
SavedDenied(k) == session.pending[k].googlePlaceId \in Range(removedFile')
SavedRemaining(k) == session.pending[k] \in Range(pendingFile')

\* C20: when a review session over the pending list P ends, each shop of P has
\* exactly one outcome (approved: appended to shops.json and its place ID in the
\* approved list; denied: its place ID in the removed list; remaining), what
\* was decided before Quit is saved, and the saved pending list is the skipped
\* shops in their order followed, on Quit, by the shops from the one on display
\* on.
C20_SessionPartitionsPending ==
  [][ (session.active /\ ~session'.active) =>
        /\ \A k \in 1..Len(session.pending) :
             /\ SavedApproved(k) <=> k \in Answered("approve")
             /\ SavedDenied(k) <=> k \in Answered("deny")
             /\ SavedRemaining(k) <=> k \in Answered("skip") \cup Unreached
        /\ pendingFile' = Select(session.pending, Answered("skip"))
                            \o Select(session.pending, Unreached)
        /\ Len(shopsFile'[1].shops)
             = Len(loadShopsFile.shops) + Cardinality(Answered("approve")) ]_vars

\* a session in which a shop was approved or denied and that was then quit
\* with a shop not yet handled has been saved
C20_Witness ==
  /\ ~session.active
  /\ decided.ended = "quit after a decision"
  /\ pendingFile # << >>

\* shops.json goes back to a collect run: its stats block has the tallies that
\* only writeOutput sets
CollectWritten == shopsFile # << >> /\ shopsFile[1].stats.withWebsite # Undef

\* the number of records of the list whose field f is truthy
Tally(shops, f) == Cardinality({ k \in 1..Len(shops) : Truthy(Field(shops[k], f)) })

\* the stats block of the data is what its shops array gives
StatsRecomputed(data) ==
  /\ data.stats.total = Num(Len(data.shops))
  /\ data.stats.independent = Num(Tally(data.shops, "isIndependent"))
  /\ data.stats.chain = Num(Len(data.shops) - Tally(data.shops, "isIndependent"))
  /\ data.stats.withWebsite = Num(Tally(data.shops, "website"))
  /\ data.stats.withPhone = Num(Tally(data.shops, "phone"))

\* C29: after a collect run followed by any sequence of review approvals, the
\* stats block of shops.json equals the tallies recomputed from its shops
\* array: total, independent, chain, withWebsite and withPhone.
C29_StatsMatchShops ==
  CollectWritten => StatsRecomputed(shopsFile[1])

\* C30: after a collect run followed by any sequence of review approvals, no
\* two records of shops.json have the same id, and every id is a positive
\* integer.
C30_IdsUniqueAndPositive ==
  CollectWritten =>
    /\ \A i, j \in 1..Len(shopsFile[1].shops) :
         shopsFile[1].shops[i].id = shopsFile[1].shops[j].id => i = j
    /\ \A i \in 1..Len(shopsFile[1].shops) :
         IsNum(shopsFile[1].shops[i].id) /\ shopsFile[1].shops[i].id.v >= 1

\* two approvals were saved into the shops.json an earlier collect run left
C30_Witness ==
  /\ CollectWritten /\ run.status = "none"
  /\ Len(shopsFile[1].shops) = 3
  /\ Cardinality(decided.approved) = 2

====
